---------------------------- MODULE Spec2Model ----------------------------
(***************************************************************************)
(* Kernel lifecycle client (jkclient.client.JupyterKernelClient).           *)
(*                                                                         *)
(* The client issues create / get / delete calls against the cluster's     *)
(* custom-object API and waits for readiness on a watch stream.  A         *)
(* lifecycle call is modelled as a process that moves from one gateway     *)
(* call to the next; the gateway answers each call atomically from the     *)
(* cluster's state, and the watch stream delivers arbitrary events.        *)
(***************************************************************************)
EXTENDS Integers, Sequences, FiniteSets, TLC

(***************************************************************************)
(* Bounds of the model.                                                    *)
(***************************************************************************)
\* the clock advances in steps of TimeStep seconds
TimeStep == 30
\* the clock of one watch is followed up to MaxElapsed seconds
MaxElapsed == 90
\* the longest conditions list whose readiness is evaluated alone
MaxConds == 2

(***************************************************************************)
(* Program constants.                                                      *)
(***************************************************************************)
\* _wait_for_kernel_ready(self, name, namespace, timeout=60, **kwargs)
WaitDefaultTimeout == 60
\* HTTPStatus.CONFLICT.value
CONFLICT == 409
\* HTTPStatus.FORBIDDEN.value
FORBIDDEN == 403
\* HTTPStatus.NOT_FOUND.value
NOT_FOUND == 404

\* the lifecycle calls that may be in flight
Calls == {"c1", "c2"}
\* the calls the sequential specification runs
SeqCalls == {"c1"}

\* Python's None, and a key that a mapping does not hold
NoVal == "<none>"
\* a name that is None or the empty string; names are sequences of the
\* parts that "-" joins: "jovyan-k1" is <<"jovyan", "k1">>
NoName == << >>

\* JupyterKernelClient(timeout=...): the client-wide default timeouts tried
ClientTimeouts == {45, 60}
\* the timeout argument of a call: 0 stands for None (both are falsy)
CallTimeouts == {0, 90}

\* the values tried for the request's env keys
ImageValues == {NoVal, "", "img"}
IdValues == {NoVal, "", "k1"}
UserValues == {NoVal, "dev"}
NamespaceValues == {NoVal, "ns1"}
RequestNames == {NoName, <<"foo">>}

\* CreateKernelRequest: name, and the env keys create reads
Request(name, image, id, user, ns) ==
    [name |-> name, KERNEL_IMAGE |-> image, KERNEL_ID |-> id,
     KERNEL_USERNAME |-> user, KERNEL_NAMESPACE |-> ns]

\* the requests tried: every combination of name, image and id, a named
\* request asking for the namespace ns1, and a complete request with a user
Requests ==
    {Request(n, i, k, NoVal, IF n = NoName THEN NoVal ELSE "ns1") :
        n \in RequestNames, i \in ImageValues, k \in IdValues}
      \cup {Request(NoName, "img", "k1", "dev", NoVal)}

NoRequest == Request(NoName, NoVal, NoVal, NoVal, NoVal)

\* the resource names and namespaces of the cluster
Names == {<<"foo">>, <<"jovyan", "k1">>, <<"dev", "k1">>}
Namespaces == {"default", "ns1"}
\* the resources that get, delete and the other users of the cluster work on
Targets ==
    {<<"default", <<"jovyan", "k1">>>>, <<"default", <<"dev", "k1">>>>,
     <<"ns1", <<"foo">>>>}

(***************************************************************************)
(* Watch events.                                                           *)
(***************************************************************************)
\* a condition's type and status; NoVal: the condition has no "type" key
CondTypes == {"Ready", "Other", NoVal}
CondStatuses == {"True", "False", "Unknown"}
Conditions == [type : CondTypes, status : CondStatuses]
\* the conditions lists of at most MaxConds conditions
CondLists == UNION {[1..n -> Conditions] : n \in 0..MaxConds}

\* obj.get("status"): absent (None), an empty mapping, a mapping without
\* "conditions", or a mapping with a conditions list
NoStatus == [kind |-> "absent", conditions |-> << >>]
EmptyStatus == [kind |-> "empty", conditions |-> << >>]
StatusNoConditions == [kind |-> "noconditions", conditions |-> << >>]
WithConditions(l) == [kind |-> "conditions", conditions |-> l]
StatusBlocks ==
    {NoStatus, EmptyStatus, StatusNoConditions}
        \cup {WithConditions(l) : l \in CondLists}

Cond(t, s) == [type |-> t, status |-> s]
ReadyTrue == WithConditions(<<Cond("Ready", "True")>>)
\* the status blocks the watch events carry
EventStatuses ==
    {NoStatus, EmptyStatus, StatusNoConditions, ReadyTrue,
     WithConditions(<< >>),
     WithConditions(<<Cond("Ready", "False")>>),
     WithConditions(<<Cond("Other", "True")>>),
     WithConditions(<<Cond("Other", "True"), Cond("Ready", "True")>>),
     WithConditions(<<Cond("Ready", "False"), Cond("Ready", "True")>>)}

\* metadata.annotations of the object: absent, or the two keys the client
\* reads (NoVal: the key is not there)
NoAnnotations == [present |-> FALSE, kid |-> NoVal, conn |-> NoVal]
FullAnnotations == [present |-> TRUE, kid |-> "k1", conn |-> "json"]
Annotations ==
    {NoAnnotations, FullAnnotations,
     [present |-> TRUE, kid |-> NoVal, conn |-> NoVal],
     [present |-> TRUE, kid |-> "k1", conn |-> ""],
     [present |-> TRUE, kid |-> "k1", conn |-> "notjson"]}

EventTypes == {"ADDED", "MODIFIED", "DELETED", "ERROR"}
\* the events a stream delivers: ADDED and MODIFIED with every name and
\* status block, DELETED and ERROR with a ready object of every name, and a
\* ready MODIFIED object with every annotations mapping
Events ==
    [type : {"ADDED", "MODIFIED"}, name : Names, status : EventStatuses,
     annotations : {FullAnnotations}]
      \cup [type : {"DELETED", "ERROR"}, name : Names, status : {ReadyTrue},
            annotations : {FullAnnotations}]
      \cup [type : {"MODIFIED"}, name : Names, status : {ReadyTrue},
            annotations : Annotations]

VARIABLES
    selfApi,       \* self.group, version, kind, plural, api_instance
    selfTimeout,   \* self.timeout
    cluster,       \* the resources the cluster holds: <<namespace, name>>
    pc,            \* where each call is
    op,            \* the method called
    req,           \* create: the request
    tname,         \* the target's name
    tns,           \* the target's namespace
    tmo,           \* the method's own `timeout` after `timeout or self.timeout`
    gtmo,          \* get's `timeout` after `timeout or self.timeout`
    log,           \* the gateway calls this call has issued and their answers
    watchOpen,     \* the watch stream is open (w.stream entered, no w.stop yet)
    wtmo,          \* _wait_for_kernel_ready's `timeout`
    elapsed,       \* time.time() - start_time
    sawReady,      \* an ADDED/MODIFIED event of the target had Ready=True
    sawNoStatus,   \* an ADDED/MODIFIED event of the target had no status
    outcome,       \* how the call ended
    result,        \* the Kernel returned
    rdStatus,      \* readiness evaluation alone: the status block
    rdVerdict,     \* readiness evaluation alone: what the loop made of it
    arg,           \* a function taken alone: its argument
    ret,           \* a function taken alone: what it returned or raised
    ready,         \* the resources whose status has Ready=True
    queue          \* the events the gateway has put on each call's stream

callVars ==
    <<pc, op, req, tname, tns, tmo, gtmo, log, watchOpen, wtmo,
      elapsed, sawReady, sawNoStatus, outcome, result>>
\* the client and the cluster
clientVars == <<selfApi, selfTimeout, cluster, callVars>>
\* the variables of the specifications of single functions
fnVars == <<arg, ret>>
readyVars == <<rdStatus, rdVerdict>>
\* the cluster's side of the watch, where a specification follows it
envVars == <<ready, queue>>
auxVars == <<rdStatus, rdVerdict, fnVars, envVars>>
vars == <<clientVars, auxVars>>

\* the attributes __init__ sets from its defaults, and the gateway handle
DefaultApi ==
    [group |-> "jupyter.org", version |-> "v1", kind |-> "Kernel",
     plural |-> "kernels", api_instance |-> "CustomObjectsApi"]

NoResult == [name |-> NoName, kernel_id |-> NoVal, conn_info |-> NoVal]

ClientInit ==
    /\ selfApi = DefaultApi
    /\ selfTimeout \in ClientTimeouts
    /\ cluster = {}
    /\ pc = [c \in Calls |-> "idle"]
    /\ op = [c \in Calls |-> "none"]
    /\ req = [c \in Calls |-> NoRequest]
    /\ tname = [c \in Calls |-> NoName]
    /\ tns = [c \in Calls |-> NoVal]
    /\ tmo = [c \in Calls |-> 0]
    /\ gtmo = [c \in Calls |-> 0]
    /\ log = [c \in Calls |-> << >>]
    /\ watchOpen = [c \in Calls |-> FALSE]
    /\ wtmo = [c \in Calls |-> 0]
    /\ elapsed = [c \in Calls |-> 0]
    /\ sawReady = [c \in Calls |-> FALSE]
    /\ sawNoStatus = [c \in Calls |-> FALSE]
    /\ outcome = [c \in Calls |-> "none"]
    /\ result = [c \in Calls |-> NoResult]

FnInit ==
    /\ arg = NoVal
    /\ ret = NoVal

EnvInit ==
    /\ ready = {}
    /\ queue = [c \in Calls |-> << >>]

AuxInit ==
    /\ rdStatus = NoStatus
    /\ rdVerdict = "unset"
    /\ FnInit
    /\ EnvInit

Init == ClientInit /\ AuxInit

(***************************************************************************)
(* Helpers.                                                                *)
(***************************************************************************)
\* Python's truth value of an env value or a name: None and "" are falsy
Falsy(v) == v = NoVal \/ v = ""

\* `timeout or self.timeout`
EffectiveTimeout(timeout) == IF timeout = 0 THEN selfTimeout ELSE timeout

\* a method that keeps the timeout it was called with as the client's own
SelfTimeoutAfter_Kept(timeout) == EffectiveTimeout(timeout)

\* self.timeout after `timeout = timeout or self.timeout`: the assignment
\* is to the method's parameter
SelfTimeoutAfter(timeout) == selfTimeout

\* env.get(key, default)
EnvGet(v, default) == IF v = NoVal THEN default ELSE v

\* kernel_name = request.name or f"{kernel_user}-{kernel_id}"
KernelName(r) ==
    IF r.name # NoName
    THEN r.name
    ELSE <<EnvGet(r.KERNEL_USERNAME, "jovyan"), r.KERNEL_ID>>

\* kernel_namespace = env.get("KERNEL_NAMESPACE", "default")
KernelNamespace(r) == EnvGet(r.KERNEL_NAMESPACE, "default")

\* the env keys of a request that create copies into the container's env
EnvKeys == {"KERNEL_IMAGE", "KERNEL_ID", "KERNEL_USERNAME", "KERNEL_NAMESPACE"}

\* KERNEL_VOLUMES or KERNEL_VOLUME_MOUNTS in a request's env: the key is
\* absent, or it holds a list
NoList == [present |-> FALSE, items |-> << >>]
ListOf(items) == [present |-> TRUE, items |-> items]
\* env.pop(key, []): the value taken out of the env
Popped(v) == IF v.present THEN v.items ELSE << >>

\* a body that is always named after the user and the kernel id
KernelDict_NameIgnored(r, volumes, mounts) ==
    [name |-> <<EnvGet(r.KERNEL_USERNAME, "jovyan"), r.KERNEL_ID>>,
     namespace |-> KernelNamespace(r),
     labels |-> r.KERNEL_ID,
     env |-> {<<k, r[k]>> : k \in {e \in EnvKeys : r[e] # NoVal}},
     image |-> r.KERNEL_IMAGE,
     container |-> "main",
     volumeMounts |-> mounts,
     restartPolicy |-> "Never",
     volumes |-> volumes]

\* kernel_dict: the body of createResource, from the request and the two
\* lists taken out of its env; labels is the value of the kernel-id label
KernelDict(r, volumes, mounts) ==
    [name |-> KernelName(r),
     namespace |-> KernelNamespace(r),
     labels |-> r.KERNEL_ID,
     env |-> {<<k, r[k]>> : k \in {e \in EnvKeys : r[e] # NoVal}},
     image |-> r.KERNEL_IMAGE,
     container |-> "main",
     volumeMounts |-> mounts,
     restartPolicy |-> "Never",
     volumes |-> volumes]

\* one gateway call and the HTTP status it was answered with
Call(kind, ns, name, timeout, status) ==
    [call |-> kind, ns |-> ns, name |-> name, timeout |-> timeout,
     status |-> status, group |-> selfApi.group,
     version |-> selfApi.version, plural |-> selfApi.plural]

\* createResource with the body it submits
CreateCall(body, timeout, status) ==
    [call |-> "createResource", ns |-> body.namespace, name |-> body.name,
     timeout |-> timeout, status |-> status, group |-> selfApi.group,
     version |-> selfApi.version, plural |-> selfApi.plural, body |-> body]

\* the calls of one kind in a log
CallsOf(l, kind) == {i \in 1..Len(l) : l[i].call = kind}


(***************************************************************************)
(* Readiness of one watched object (_wait_for_kernel_ready's loop body).   *)
(***************************************************************************)
\* obj.get("status") is truthy: the key is there and its mapping not empty
StatusTruthy(st) == st.kind \notin {"absent", "empty"}

\* obj["status"].get("conditions", [])
ConditionsOf(st) == IF st.kind = "conditions" THEN st.conditions ELSE << >>

\* next((c for c in conditions if c.get("type") == "Ready"), None):
\* 0 stands for None, otherwise the index of the first Ready condition
AvailableCondition(conds) ==
    LET idx == {i \in 1..Len(conds) : conds[i].type = "Ready"}
    IN  IF idx = {} THEN 0 ELSE CHOOSE i \in idx : \A j \in idx : i <= j

\* a readiness test that asks only for a Ready condition
IsReady_AnyStatus(st) == AvailableCondition(ConditionsOf(st)) # 0

\* available_condition and available_condition.get("status") == "True"
IsReady(st) ==
    LET conds == ConditionsOf(st)
        i == AvailableCondition(conds)
    IN  i # 0 /\ conds[i].status = "True"

\* a loop that returns the ready object of any name and any event type
EventReady_AnyEvent(ev, name) ==
    /\ StatusTruthy(ev.status)
    /\ IsReady(ev.status)

\* a loop that looks at MODIFIED events alone
EventReady_ModifiedOnly(ev, name) ==
    /\ ev.type = "MODIFIED"
    /\ ev.name = name
    /\ StatusTruthy(ev.status)
    /\ IsReady(ev.status)

\* a loop that returns the first object of the target's name, ready or not
EventReady_AnyObject(ev, name) ==
    /\ ev.type \in {"ADDED", "MODIFIED"}
    /\ ev.name = name

\* the event is one the loop returns on
EventReady(ev, name) ==
    /\ ev.type \in {"ADDED", "MODIFIED"}
    /\ ev.name = name
    /\ StatusTruthy(ev.status)
    /\ IsReady(ev.status)

\* time.time() - start_time > timeout
DeadlinePassed(el, timeout) == el > timeout

(***************************************************************************)
(* get's use of the ready object: the Kernel it returns, or the exception  *)
(* that reading the annotations raises.                                    *)
(***************************************************************************)
Extract(ann, name) ==
    IF ~ann.present
    THEN [outcome |-> "KeyError", result |-> NoResult]
    ELSE IF ann.conn = "notjson"
    THEN [outcome |-> "JSONDecodeError", result |-> NoResult]
    ELSE [outcome |-> "Kernel",
          result |-> [name |-> name,
                      kernel_id |-> EnvGet(ann.kid, ""),
                      conn_info |-> IF Falsy(ann.conn) THEN "{}" ELSE ann.conn]]

(***************************************************************************)
(* The gateway's answers: the HTTP status it returns for a call on a       *)
(* resource, from what the cluster holds; it may also refuse or fail.      *)
(***************************************************************************)
CreateAnswers(key) ==
    {IF key \in cluster THEN CONFLICT ELSE 201} \cup {FORBIDDEN, 500}
GetAnswers(key) ==
    {IF key \in cluster THEN 200 ELSE NOT_FOUND} \cup {500}
DeleteAnswers(key) ==
    {IF key \in cluster THEN 200 ELSE NOT_FOUND} \cup {500}

\* the call ends: it returns, or raises
Finish(c, how, res) ==
    /\ pc' = [pc EXCEPT ![c] = "done"]
    /\ outcome' = [outcome EXCEPT ![c] = how]
    /\ result' = [result EXCEPT ![c] = res]

watchVars == <<watchOpen, wtmo, elapsed, sawReady, sawNoStatus>>

(***************************************************************************)
(* create / acreate                                                        *)
(***************************************************************************)
\* a validation that forgets the check of KERNEL_ID
ValidationError_NoIdCheck(r) ==
    IF Falsy(r.KERNEL_IMAGE) THEN "KERNEL_IMAGE" ELSE "none"

\* the two checks of the request's env, in the code's order
ValidationError(r) ==
    IF Falsy(r.KERNEL_IMAGE) THEN "KERNEL_IMAGE"
    ELSE IF Falsy(r.KERNEL_ID) THEN "KERNEL_ID"
    ELSE "none"

\* create(request, timeout) up to its gateway call: the timeout, the
\* validation, the name and the namespace
CreateBegin(c, method, r, timeout) ==
    /\ pc[c] = "idle"
    /\ op' = [op EXCEPT ![c] = method]
    /\ req' = [req EXCEPT ![c] = r]
    /\ tmo' = [tmo EXCEPT ![c] = EffectiveTimeout(timeout)]
    /\ IF ValidationError(r) # "none"
       THEN /\ Finish(c, "ValueError", NoResult)
            /\ UNCHANGED <<tname, tns>>
       ELSE /\ pc' = [pc EXCEPT ![c] = "create"]
            /\ tname' = [tname EXCEPT ![c] = KernelName(r)]
            /\ tns' = [tns EXCEPT ![c] = KernelNamespace(r)]
            /\ UNCHANGED <<outcome, result>>
    /\ selfTimeout' = SelfTimeoutAfter(timeout)
    /\ UNCHANGED <<selfApi, cluster, gtmo, log, watchVars, auxVars>>

\* a create for which a conflict is a failure like any other
AfterCreate_ConflictFails(ans) ==
    IF ans = 201 THEN "get"
    ELSE IF ans = FORBIDDEN THEN "KernelCreationForbiddenError"
    ELSE "RuntimeError:create"

\* a create that has no error of its own for a refusal
AfterCreate_ForbiddenGeneric(ans) ==
    IF ans = 201 THEN "get"
    ELSE IF ans = CONFLICT THEN "get"
    ELSE "RuntimeError:create"

\* a create that goes on to get after a failure of the gateway
AfterCreate_ErrorGoesToGet(ans) ==
    IF ans = FORBIDDEN THEN "KernelCreationForbiddenError" ELSE "get"

\* what create does with the gateway's answer: go on to get, or raise
AfterCreate(ans) ==
    IF ans = 201 THEN "get"
    ELSE IF ans = CONFLICT THEN "get"
    ELSE IF ans = FORBIDDEN THEN "KernelCreationForbiddenError"
    ELSE "RuntimeError:create"

\* create_namespaced_custom_object and the handling of its answer; both
\* calls of get pass no timeout, so get falls back to self.timeout.  The
\* requests of this specification have no volumes in their env
CreateSubmit(c) ==
    /\ pc[c] = "create"
    /\ \E ans \in CreateAnswers(<<tns[c], tname[c]>>) :
         /\ log' = [log EXCEPT ![c] =
                       Append(@, CreateCall(KernelDict(req[c], Popped(NoList),
                                                       Popped(NoList)),
                                            tmo[c], ans))]
         /\ cluster' = IF ans = 201 THEN cluster \cup {<<tns[c], tname[c]>>}
                                    ELSE cluster
         /\ IF AfterCreate(ans) = "get"
            THEN /\ pc' = [pc EXCEPT ![c] = "get"]
                 /\ gtmo' = [gtmo EXCEPT ![c] = EffectiveTimeout(0)]
                 /\ UNCHANGED <<outcome, result>>
            ELSE /\ Finish(c, AfterCreate(ans), NoResult)
                 /\ UNCHANGED gtmo
    /\ UNCHANGED <<selfApi, selfTimeout, op, req, tname, tns, tmo, watchVars, auxVars>>

(***************************************************************************)
(* get / aget                                                              *)
(***************************************************************************)
GetBegin(c, method, name, ns, timeout) ==
    /\ pc[c] = "idle"
    /\ op' = [op EXCEPT ![c] = method]
    /\ tname' = [tname EXCEPT ![c] = name]
    /\ tns' = [tns EXCEPT ![c] = ns]
    /\ gtmo' = [gtmo EXCEPT ![c] = EffectiveTimeout(timeout)]
    /\ pc' = [pc EXCEPT ![c] = "get"]
    /\ selfTimeout' = SelfTimeoutAfter(timeout)
    /\ UNCHANGED <<selfApi, cluster, req, tmo, log, watchVars,
                   outcome, result, auxVars>>

\* a get that returns None for a resource that is not there
AfterGet_NotFoundReturnsNone(ans) ==
    IF ans = 200 THEN "wait"
    ELSE IF ans = NOT_FOUND THEN "None"
    ELSE "RuntimeError:get"

\* what get does with the gateway's answer: wait for readiness, or raise
AfterGet(ans) == IF ans = 200 THEN "wait" ELSE "RuntimeError:get"

\* get_namespaced_custom_object; an ApiException becomes a RuntimeError
GetSubmit(c) ==
    /\ pc[c] = "get"
    /\ \E ans \in GetAnswers(<<tns[c], tname[c]>>) :
         /\ log' = [log EXCEPT ![c] =
                       Append(@, Call("getResource", tns[c], tname[c], gtmo[c], ans))]
         /\ IF AfterGet(ans) = "wait"
            THEN /\ pc' = [pc EXCEPT ![c] = "wait"]
                 /\ UNCHANGED <<outcome, result>>
            ELSE Finish(c, AfterGet(ans), NoResult)
    /\ UNCHANGED <<selfApi, selfTimeout, cluster, op, req, tname, tns, tmo, gtmo,
                   watchVars, auxVars>>

(***************************************************************************)
(* _wait_for_kernel_ready, as get calls it                                 *)
(***************************************************************************)
\* the timeout _wait_for_kernel_ready runs with: get passes name, namespace
\* and **kwargs, so the parameter keeps its default
WaitTimeout(c) == WaitDefaultTimeout

\* w = watch.Watch(); start_time = time.time(); w.stream(...) opens the watch
OpenStream(c) ==
    /\ pc[c] = "wait"
    /\ pc' = [pc EXCEPT ![c] = "watching"]
    /\ watchOpen' = [watchOpen EXCEPT ![c] = TRUE]
    /\ wtmo' = [wtmo EXCEPT ![c] = WaitTimeout(c)]
    /\ elapsed' = [elapsed EXCEPT ![c] = 0]
    /\ log' = [log EXCEPT ![c] =
                  Append(@, Call("watchResources", tns[c], NoName, WaitTimeout(c), 200))]
    /\ UNCHANGED <<selfApi, selfTimeout, cluster, op, req, tname, tns, tmo, gtmo,
                   sawReady, sawNoStatus, outcome, result>>

\* the opening of the watch, whatever the stream then delivers
WatchOpen(c) == OpenStream(c) /\ UNCHANGED auxVars

\* what an event is, in the words of the watch-for-ready protocol: of another
\* object or type, of the target without a status block, with an empty one,
\* with a Ready condition whose status is "True", or with none such
EventClass(ev, name) ==
    IF ev.type \notin {"ADDED", "MODIFIED"} \/ ev.name # name THEN "other"
    ELSE IF ev.status.kind = "absent" THEN "nostatus"
    ELSE IF ev.status.kind = "empty" THEN "emptystatus"
    ELSE IF \E i \in 1..Len(ev.status.conditions) :
               /\ ev.status.conditions[i].type = "Ready"
               /\ ev.status.conditions[i].status = "True"
         THEN "ready"
    ELSE "notready"

\* an exit that leaves the stream open
StopWatch_Missing(c) ==
    /\ watchOpen' = watchOpen
    /\ wtmo' = [wtmo EXCEPT ![c] = 0]
    /\ elapsed' = [elapsed EXCEPT ![c] = 0]

\* finally: w.stop(), and the frame of _wait_for_kernel_ready is gone
StopWatch(c) ==
    /\ watchOpen' = [watchOpen EXCEPT ![c] = FALSE]
    /\ wtmo' = [wtmo EXCEPT ![c] = 0]
    /\ elapsed' = [elapsed EXCEPT ![c] = 0]

\* a loop that tests the deadline before it looks at the event
AfterEvent_DeadlineFirst(ev, name, el, timeout) ==
    IF DeadlinePassed(el, timeout) THEN "cleanup"
    ELSE IF EventReady(ev, name) THEN "return"
    ELSE "watching"

\* a loop that gives up on the first event that shows no readiness
AfterEvent_NoPatience(ev, name, el, timeout) ==
    IF EventReady(ev, name) THEN "return" ELSE "cleanup"

\* what one turn of the loop does with an event: return the object, go on
\* to delete the target, or read on
AfterEvent(ev, name, el, timeout) ==
    IF EventReady(ev, name) THEN "return"
    ELSE IF DeadlinePassed(el, timeout) THEN "cleanup"
    ELSE "watching"

\* one turn of the loop `for event in w.stream(...)`; of a returned object
\* get builds the Kernel
ReadEvent(c, ev) ==
    /\ pc[c] = "watching"
    /\ sawReady' = [sawReady EXCEPT ![c] = @ \/ EventClass(ev, tname[c]) = "ready"]
    /\ sawNoStatus' = [sawNoStatus EXCEPT ![c] =
                          @ \/ EventClass(ev, tname[c]) = "nostatus"]
    /\ LET next == AfterEvent(ev, tname[c], elapsed[c], wtmo[c])
       IN  IF next = "return"
           THEN /\ StopWatch(c)
                /\ Finish(c, Extract(ev.annotations, tname[c]).outcome,
                             Extract(ev.annotations, tname[c]).result)
           ELSE /\ pc' = [pc EXCEPT ![c] = next]
                /\ UNCHANGED <<watchOpen, wtmo, elapsed, outcome, result>>
    /\ UNCHANGED <<selfApi, selfTimeout, cluster, op, req, tname, tns, tmo, gtmo, log>>

\* the loop reads an event that the stream delivers
WatchEvent(c, ev) == ReadEvent(c, ev) /\ UNCHANGED auxVars

\* a stream opened without timeout_seconds: the gateway never ends it
StreamEnded_NoTimeout(el, timeout) == FALSE

\* timeout_seconds=timeout: the gateway ends the stream that long after it
\* was opened
StreamEnded(el, timeout) == el >= timeout

\* the stream ends by itself, timeout_seconds after it was opened: the loop
\* is left, w.stop() runs, False is returned and get raises the timeout
WatchEnd(c) ==
    /\ pc[c] = "watching"
    /\ StreamEnded(elapsed[c], wtmo[c])
    /\ StopWatch(c)
    /\ Finish(c, "RuntimeError:timeout", NoResult)
    /\ UNCHANGED <<selfApi, selfTimeout, cluster, op, req, tname, tns, tmo, gtmo, log,
                   sawReady, sawNoStatus, auxVars>>

\* reading the stream raises (the connection breaks, the gateway refuses the
\* watch): finally: w.stop(), and the exception leaves get
WatchError(c) ==
    /\ pc[c] = "watching"
    /\ StopWatch(c)
    /\ Finish(c, "StreamError", NoResult)
    /\ UNCHANGED <<selfApi, selfTimeout, cluster, op, req, tname, tns, tmo, gtmo, log,
                   sawReady, sawNoStatus, auxVars>>

(***************************************************************************)
(* delete                                                                  *)
(***************************************************************************)
\* a delete for which a resource that is not there is an error
AfterDelete_NotFoundRaises(ans) ==
    IF ans = 200 THEN "None" ELSE "RuntimeError:delete"

\* what delete does with the gateway's answer: return, or raise
AfterDelete(ans) ==
    IF ans = 200 THEN "None"
    ELSE IF ans = NOT_FOUND THEN "None"
    ELSE "RuntimeError:delete"

\* a delete that is told the name only and works in delete's default
\* namespace
DeleteCall_DefaultNamespace(c, timeout, ans) ==
    /\ log' = [log EXCEPT ![c] =
                  Append(@, Call("deleteResource", "default", tname[c], timeout, ans))]
    /\ cluster' = IF ans = 200 THEN cluster \ {<<"default", tname[c]>>} ELSE cluster

\* delete_namespaced_custom_object, as the gateway sees it
DeleteCall(c, timeout, ans) ==
    /\ log' = [log EXCEPT ![c] =
                  Append(@, Call("deleteResource", tns[c], tname[c], timeout, ans))]
    /\ cluster' = IF ans = 200 THEN cluster \ {<<tns[c], tname[c]>>} ELSE cluster

\* how _wait_for_kernel_ready and get end after the cleanup's delete: delete
\* returned and `return False` makes get raise the timeout, or delete raised
\* and its exception leaves both
AfterCleanup(deleted) ==
    IF deleted = "None" THEN "RuntimeError:timeout" ELSE deleted

\* the timeout's cleanup: self.delete(name=name, namespace=namespace) inside
\* the loop, under finally: w.stop()
CleanupDelete(c) ==
    /\ pc[c] = "cleanup"
    /\ \E ans \in DeleteAnswers(<<tns[c], tname[c]>>) :
         /\ DeleteCall(c, EffectiveTimeout(0), ans)
         /\ Finish(c, AfterCleanup(AfterDelete(ans)), NoResult)
    /\ StopWatch(c)
    /\ UNCHANGED <<selfApi, selfTimeout, op, req, tname, tns, tmo, gtmo, sawReady, sawNoStatus, auxVars>>

\* delete / adelete up to the gateway call
DeleteBegin(c, method, name, ns, timeout) ==
    /\ pc[c] = "idle"
    /\ op' = [op EXCEPT ![c] = method]
    /\ tname' = [tname EXCEPT ![c] = name]
    /\ tns' = [tns EXCEPT ![c] = ns]
    /\ tmo' = [tmo EXCEPT ![c] = EffectiveTimeout(timeout)]
    /\ pc' = [pc EXCEPT ![c] = "delete"]
    /\ selfTimeout' = SelfTimeoutAfter(timeout)
    /\ UNCHANGED <<selfApi, cluster, req, gtmo, log, watchVars,
                   outcome, result, auxVars>>

\* the methods that end in adelete
EndsInAdelete(method) == method \in {"adelete", "adelete_by_kernel_id"}

\* how the method ends on the gateway's answer to deleteResource.  adelete
\* passes async_req=True and drops the AsyncResult it gets back: the request
\* is sent, its answer is never read, and no ApiException reaches the
\* except clause
DeleteOutcome(method, ans) ==
    IF EndsInAdelete(method) THEN "None" ELSE AfterDelete(ans)

\* _request_timeout of the deleteResource: the method's own timeout, or for
\* the delete that (a)delete_by_kernel_id calls without one, self.timeout
DeleteTimeout(c) ==
    IF op[c] \in {"delete", "adelete"} THEN tmo[c] ELSE EffectiveTimeout(0)

\* delete_namespaced_custom_object and the handling of its answer
DeleteSubmit(c) ==
    /\ pc[c] = "delete"
    /\ \E ans \in DeleteAnswers(<<tns[c], tname[c]>>) :
         /\ DeleteCall(c, DeleteTimeout(c), ans)
         /\ Finish(c, DeleteOutcome(op[c], ans), NoResult)
    /\ UNCHANGED <<selfApi, selfTimeout, op, req, tname, tns, tmo, gtmo, watchVars, auxVars>>

(***************************************************************************)
(* delete_by_kernel_id / adelete_by_kernel_id                              *)
(***************************************************************************)
\* the label of the selector, KERNEL_ID
KernelIdLabel == "jupyter.org/kernel-id"
\* the kernel ids asked for
KernelIds == {"k1", "k2"}

\* the sequences of distinct resources of a set
Orderings(S) ==
    {s \in UNION {[1..n -> S] : n \in 0..Cardinality(S)} :
        \A i, j \in 1..Len(s) : i # j => s[i] # s[j]}

\* kernels["items"] of the gateway's answer to the list call, in its own
\* order.  The labels of the resources are not followed: the gateway may
\* find any of the resources it holds to carry the label
Listings == Orderings(cluster)

\* list_cluster_custom_object with its label selector and the answer
ListCall(selector, timeout, status, items) ==
    [call |-> "listResources", ns |-> NoVal, name |-> NoName,
     timeout |-> timeout, status |-> status, group |-> selfApi.group,
     version |-> selfApi.version, plural |-> selfApi.plural,
     selector |-> selector, items |-> items]

\* _request_timeout of the list call: delete_by_kernel_id passes none (0),
\* adelete_by_kernel_id passes `timeout or self.timeout`
ListTimeout(method, timeout) ==
    IF method = "delete_by_kernel_id" THEN 0 ELSE EffectiveTimeout(timeout)

\* a delete by id that takes the last item of the listing
ItemToDelete_Last(items) == items[Len(items)]

\* items[0]
ItemToDelete(items) == items[1]

\* (a)delete_by_kernel_id up to its call of (a)delete: the list call, whose
\* ApiException nothing catches, and the choice of the item
DeleteByIdList(c, method, kid, timeout) ==
    /\ pc[c] = "idle"
    /\ op' = [op EXCEPT ![c] = method]
    /\ tmo' = [tmo EXCEPT ![c] = EffectiveTimeout(timeout)]
    /\ \E ans \in {200, 500} :
       \E items \in IF ans = 200 THEN Listings ELSE {<< >>} :
         /\ log' = [log EXCEPT ![c] =
                       Append(@, ListCall(<<KernelIdLabel, kid>>,
                                          ListTimeout(method, timeout), ans, items))]
         /\ IF ans # 200
            THEN /\ Finish(c, "ApiException", NoResult)
                 /\ UNCHANGED <<tname, tns>>
            ELSE IF items = << >>
            THEN /\ Finish(c, "None", NoResult)
                 /\ UNCHANGED <<tname, tns>>
            ELSE /\ pc' = [pc EXCEPT ![c] = "delete"]
                 /\ tname' = [tname EXCEPT ![c] = ItemToDelete(items)[2]]
                 /\ tns' = [tns EXCEPT ![c] = ItemToDelete(items)[1]]
                 /\ UNCHANGED <<outcome, result>>
    /\ selfTimeout' = SelfTimeoutAfter(timeout)
    /\ UNCHANGED <<selfApi, cluster, req, gtmo, watchVars, auxVars>>

(***************************************************************************)
(* The environment: the clock, the caller, the rest of the cluster.        *)
(***************************************************************************)
\* time passes for every open watch
Tick ==
    /\ \E c \in Calls : pc[c] = "watching" /\ elapsed[c] + TimeStep <= MaxElapsed
    /\ elapsed' = [c \in Calls |->
                      IF pc[c] = "watching" /\ elapsed[c] + TimeStep <= MaxElapsed
                      THEN elapsed[c] + TimeStep
                      ELSE elapsed[c]]
    /\ UNCHANGED <<selfApi, selfTimeout, cluster, pc, op, req, tname, tns, tmo, gtmo, log,
                   watchOpen, wtmo, sawReady, sawNoStatus, outcome,
                   result, auxVars>>

\* the caller has the call's result or exception; the slot is free again
Return(c) ==
    /\ pc[c] = "done"
    /\ pc' = [pc EXCEPT ![c] = "idle"]
    /\ op' = [op EXCEPT ![c] = "none"]
    /\ req' = [req EXCEPT ![c] = NoRequest]
    /\ tname' = [tname EXCEPT ![c] = NoName]
    /\ tns' = [tns EXCEPT ![c] = NoVal]
    /\ tmo' = [tmo EXCEPT ![c] = 0]
    /\ gtmo' = [gtmo EXCEPT ![c] = 0]
    /\ log' = [log EXCEPT ![c] = << >>]
    /\ sawReady' = [sawReady EXCEPT ![c] = FALSE]
    /\ sawNoStatus' = [sawNoStatus EXCEPT ![c] = FALSE]
    /\ outcome' = [outcome EXCEPT ![c] = "none"]
    /\ result' = [result EXCEPT ![c] = NoResult]
    /\ UNCHANGED <<selfApi, selfTimeout, cluster, watchOpen, wtmo, elapsed, auxVars>>

\* another user of the cluster creates or deletes a resource
ClusterChange(key) ==
    /\ cluster' = IF key \in cluster THEN cluster \ {key} ELSE cluster \cup {key}
    /\ UNCHANGED <<selfApi, selfTimeout, callVars, auxVars>>

(***************************************************************************)
(* The sequential specification: one lifecycle call at a time.             *)
(***************************************************************************)
Next ==
    \/ \E c \in SeqCalls, m \in {"create", "acreate"}, r \in Requests,
          t \in CallTimeouts : CreateBegin(c, m, r, t)
    \/ \E c \in SeqCalls : CreateSubmit(c)
    \/ \E c \in SeqCalls, m \in {"get", "aget"}, k \in Targets,
          t \in CallTimeouts : GetBegin(c, m, k[2], k[1], t)
    \/ \E c \in SeqCalls : GetSubmit(c)
    \/ \E c \in SeqCalls : WatchOpen(c)
    \/ \E c \in SeqCalls, ev \in Events : WatchEvent(c, ev)
    \/ \E c \in SeqCalls : WatchEnd(c)
    \/ \E c \in SeqCalls : WatchError(c)
    \/ \E c \in SeqCalls : CleanupDelete(c)
    \/ \E c \in SeqCalls, m \in {"delete", "adelete"}, k \in Targets,
          t \in CallTimeouts : DeleteBegin(c, m, k[2], k[1], t)
    \/ \E c \in SeqCalls : DeleteSubmit(c)
    \/ \E c \in SeqCalls, m \in {"delete_by_kernel_id", "adelete_by_kernel_id"},
          kid \in KernelIds, t \in CallTimeouts : DeleteByIdList(c, m, kid, t)
    \/ \E c \in SeqCalls : Return(c)
    \/ Tick
    \/ \E key \in Targets : ClusterChange(key)

Spec == Init /\ [][Next]_vars

(***************************************************************************)
(* The sequential specification with its progress assumptions: every       *)
(* gateway call returns (create_, get_ and delete_namespaced_custom_object *)
(* are blocking calls with a _request_timeout), the stream is opened, the  *)
(* clock goes on, and the gateway ends the stream when its timeout_seconds *)
(* are over.  Nothing is assumed of the events: the stream may deliver any *)
(* of them, or none.                                                       *)
(***************************************************************************)
Progress ==
    /\ \A c \in SeqCalls :
          /\ WF_vars(CreateSubmit(c))
          /\ WF_vars(GetSubmit(c))
          /\ WF_vars(WatchOpen(c))
          /\ WF_vars(WatchEnd(c))
          /\ WF_vars(CleanupDelete(c))
    /\ WF_vars(Tick)

LiveSpec == Spec /\ Progress

(***************************************************************************)
(* The concurrent specification: two lifecycle calls, each made once.  The *)
(* blocking methods run in threads of their own; the coroutines of the     *)
(* non-blocking methods run on one event loop.                             *)
(***************************************************************************)
IsAsync(method) ==
    method \in {"acreate", "aget", "adelete", "adelete_by_kernel_id"}

\* the call's coroutine has started and not finished
OnLoop(c) == IsAsync(op[c]) /\ pc[c] \notin {"idle", "done"}

\* the call's coroutine has handed the event loop back.  The coroutines
\* await only one another (await self.aget, await self.adelete);
\* response.get() and the loop of _wait_for_kernel_ready are plain blocking
\* calls, so a coroutine that has started keeps the loop until it is done
Suspended(c) == FALSE

\* a coroutine starts when no other coroutine holds the event loop
MayStart(c, method) ==
    IsAsync(method) =>
        \A d \in Calls \ {c} : OnLoop(d) => Suspended(d)

\* the requests of the concurrent calls: two for default/jovyan-k1, by its
\* default name with kernel id k1 and by its explicit name with kernel id
\* k2, and one for default/dev-k1
ConcRequests ==
    {Request(NoName, "img", "k1", NoVal, NoVal),
     Request(<<"jovyan", "k1">>, "img", "k2", NoVal, NoVal),
     Request(NoName, "img", "k1", "dev", NoVal)}
ConcTargets ==
    {<<"default", <<"jovyan", "k1">>>>, <<"default", <<"dev", "k1">>>>}

\* the events of the concurrent calls' streams
ConcEvents ==
    [type : {"ADDED"}, name : {k[2] : k \in ConcTargets}, status : {ReadyTrue},
     annotations : {[present |-> TRUE, kid |-> k, conn |-> "json"] :
                       k \in KernelIds}]
      \cup [type : {"MODIFIED"}, name : {k[2] : k \in ConcTargets},
            status : {NoStatus, WithConditions(<<Cond("Ready", "False")>>)},
            annotations : {FullAnnotations}]

\* the kernel ids the resource may carry in its annotations: the controller
\* copies the kernel id of the label that create wrote (metadata.labels),
\* and a resource that no call created may carry any
StoredKernelIds(ns, name) ==
    LET creators == {c \in Calls :
                        /\ op[c] \in {"create", "acreate"}
                        /\ Len(log[c]) > 0
                        /\ log[c][1].status = 201
                        /\ tns[c] = ns
                        /\ tname[c] = name}
    IN  IF creators = {} THEN KernelIds
        ELSE {req[c].KERNEL_ID : c \in creators}

\* an event the stream of the call can deliver: it shows the resource with
\* the kernel id it carries
ConcWatchEvent(c, ev) ==
    /\ ev.annotations.kid \in StoredKernelIds(tns[c], ev.name)
    /\ WatchEvent(c, ev)

ConcNext ==
    \/ \E c \in Calls, m \in {"create", "acreate"}, r \in ConcRequests :
          MayStart(c, m) /\ CreateBegin(c, m, r, 0)
    \/ \E c \in Calls : CreateSubmit(c)
    \/ \E c \in Calls, m \in {"get", "aget"}, k \in ConcTargets :
          MayStart(c, m) /\ GetBegin(c, m, k[2], k[1], 0)
    \/ \E c \in Calls : GetSubmit(c)
    \/ \E c \in Calls : WatchOpen(c)
    \/ \E c \in Calls, ev \in ConcEvents : ConcWatchEvent(c, ev)
    \/ \E c \in Calls : WatchEnd(c)
    \/ \E c \in Calls : CleanupDelete(c)
    \/ \E c \in Calls, m \in {"delete", "adelete"}, k \in ConcTargets :
          MayStart(c, m) /\ DeleteBegin(c, m, k[2], k[1], 0)
    \/ \E c \in Calls : DeleteSubmit(c)
    \/ \E c \in Calls, m \in {"delete_by_kernel_id", "adelete_by_kernel_id"} :
          MayStart(c, m) /\ DeleteByIdList(c, m, "k1", 0)
    \/ Tick

ConcSpec == Init /\ [][ConcNext]_vars

(***************************************************************************)
(* Readiness evaluation alone: the loop body's verdict on one status block *)
(* of the target, for every status block.                                  *)
(***************************************************************************)
ReadyInit ==
    /\ ClientInit
    /\ FnInit
    /\ EnvInit
    /\ rdStatus \in StatusBlocks
    /\ rdVerdict = "unset"

\* obj.get("status") and ... the first Ready condition's status == "True"
Evaluate ==
    /\ rdVerdict = "unset"
    /\ rdVerdict' = IF StatusTruthy(rdStatus) /\ IsReady(rdStatus)
                    THEN "ready" ELSE "notready"
    /\ UNCHANGED <<rdStatus, clientVars, fnVars, envVars>>

\* the next object's status block
NextStatus ==
    /\ rdVerdict # "unset"
    /\ rdStatus' \in StatusBlocks
    /\ rdVerdict' = "unset"
    /\ UNCHANGED <<clientVars, fnVars, envVars>>

ReadyNext == Evaluate \/ NextStatus

ReadySpec == ReadyInit /\ [][ReadyNext]_vars

(***************************************************************************)
(* get's reading of the ready object, taken alone: the Kernel it builds    *)
(* from the object's metadata, for every metadata tried.                   *)
(***************************************************************************)
\* metadata.labels of the object: absent, or the kernel-id label (NoVal:
\* the mapping does not hold it)
NoLabels == [present |-> FALSE, kid |-> NoVal]
Labels ==
    {NoLabels} \cup [present : {TRUE}, kid : {NoVal} \cup KernelIds]

\* the metadata of a ready object
Metadata == [annotations : Annotations, labels : Labels]

\* kernel["metadata"]["annotations"].get(...): the labels are not read
ExtractFrom(meta, name) == Extract(meta.annotations, name)

NotExtracted == [outcome |-> "unset", result |-> NoResult]

ExtractInit ==
    /\ ClientInit
    /\ EnvInit
    /\ rdStatus = NoStatus
    /\ rdVerdict = "unset"
    /\ arg \in [metadata : Metadata, name : Names]
    /\ ret = NotExtracted

\* the lines of get after _wait_for_kernel_ready has returned the object
ExtractApply ==
    /\ ret = NotExtracted
    /\ ret' = ExtractFrom(arg.metadata, arg.name)
    /\ UNCHANGED <<arg, clientVars, readyVars, envVars>>

\* the next ready object
ExtractAgain ==
    /\ ret # NotExtracted
    /\ arg' \in [metadata : Metadata, name : Names]
    /\ ret' = NotExtracted
    /\ UNCHANGED <<clientVars, readyVars, envVars>>

ExtractNext == ExtractApply \/ ExtractAgain

ExtractSpec == ExtractInit /\ [][ExtractNext]_vars

(***************************************************************************)
(* create's building of the body, taken alone: the caller makes a request  *)
(* object and passes it to create more than once.                          *)
(***************************************************************************)
\* the create calls made with one request object
MaxCreates == 2

VolumeLists == {NoList, ListOf(<< >>), ListOf(<<"vol">>)}
\* the request objects tried: valid requests with and without volumes
BodyRequests ==
    [request : {Request(n, "img", "k1", u, ns) :
                    n \in RequestNames, u \in UserValues, ns \in NamespaceValues},
     KERNEL_VOLUMES : VolumeLists,
     KERNEL_VOLUME_MOUNTS : VolumeLists]

BodyInit ==
    /\ ClientInit
    /\ EnvInit
    /\ rdStatus = NoStatus
    /\ rdVerdict = "unset"
    /\ arg \in BodyRequests
    /\ ret = << >>

\* create(request) up to kernel_dict: `env = request.env` is the request's
\* own mapping, so env.pop takes the two keys out of the request
BuildBody ==
    /\ Len(ret) < MaxCreates
    /\ ValidationError(arg.request) = "none"
    /\ ret' = Append(ret, KernelDict(arg.request, Popped(arg.KERNEL_VOLUMES),
                                     Popped(arg.KERNEL_VOLUME_MOUNTS)))
    /\ arg' = [arg EXCEPT !.KERNEL_VOLUMES = NoList,
                          !.KERNEL_VOLUME_MOUNTS = NoList]
    /\ UNCHANGED <<clientVars, readyVars, envVars>>

\* the caller makes another request object
NewRequest ==
    /\ ret # << >>
    /\ arg' \in BodyRequests
    /\ ret' = << >>
    /\ UNCHANGED <<clientVars, readyVars, envVars>>

BodyNext == BuildBody \/ NewRequest

BodySpec == BodyInit /\ [][BodyNext]_vars

(***************************************************************************)
(* CreateKernelRequest's validator of env, taken alone, for KERNEL_VOLUMES *)
(* and KERNEL_VOLUME_MOUNTS values of every shape.                         *)
(***************************************************************************)
\* a value of env: the key is absent, or it holds a list, a string, a
\* mapping, a number or None
Value(shape, text, items) == [shape |-> shape, text |-> text, items |-> items]
AbsentValue == Value("absent", "", << >>)
ListValue(items) == Value("list", "", items)
StrValue(text) == Value("str", text, << >>)
DictValue == Value("dict", "", << >>)
IntValue == Value("int", "", << >>)
NoneValue == Value("none", "", << >>)

\* the strings tried
JsonTexts == {"[]", "[\"v\"]", "{}", "1", "null", "foo-0", ""}

\* json.loads: the value a text decodes to; ok is FALSE when it raises
\* json.JSONDecodeError, a ValueError
JsonLoads(text) ==
    CASE text = "[]" -> [ok |-> TRUE, value |-> ListValue(<< >>)]
      [] text = "[\"v\"]" -> [ok |-> TRUE, value |-> ListValue(<<"v">>)]
      [] text = "{}" -> [ok |-> TRUE, value |-> DictValue]
      [] text = "1" -> [ok |-> TRUE, value |-> IntValue]
      [] text = "null" -> [ok |-> TRUE, value |-> NoneValue]
      [] OTHER -> [ok |-> FALSE, value |-> NoneValue]

EnvValues ==
    {AbsentValue, ListValue(<< >>), ListValue(<<"v">>), DictValue, IntValue,
     NoneValue} \cup {StrValue(t) : t \in JsonTexts}

\* a check that takes whatever a string decodes to
ToList_AnyJson(v) ==
    LET decoded == IF v.shape = "str" THEN JsonLoads(v.text)
                   ELSE [ok |-> TRUE, value |-> v]
    IN  IF ~decoded.ok
        THEN [error |-> "must be a json str", value |-> v]
        ELSE IF v.shape # "str" /\ decoded.value.shape # "list"
        THEN [error |-> "must be a list or json list str", value |-> v]
        ELSE [error |-> "none", value |-> decoded.value]

\* the validator's handling of one key that env holds: decode a string,
\* then require a list
ToList(v) ==
    LET decoded == IF v.shape = "str" THEN JsonLoads(v.text)
                   ELSE [ok |-> TRUE, value |-> v]
    IN  IF ~decoded.ok
        THEN [error |-> "must be a json str", value |-> v]
        ELSE IF decoded.value.shape # "list"
        THEN [error |-> "must be a list or json list str", value |-> v]
        ELSE [error |-> "none", value |-> decoded.value]

\* convert_env_value_to_list: KERNEL_VOLUME_MOUNTS first, then
\* KERNEL_VOLUMES; the first error is raised
ConvertEnvValueToList(env) ==
    LET m == env.KERNEL_VOLUME_MOUNTS
        v == env.KERNEL_VOLUMES
    IN  IF m.shape # "absent" /\ ToList(m).error # "none"
        THEN [error |-> <<"KERNEL_VOLUME_MOUNTS", ToList(m).error>>, env |-> env]
        ELSE IF v.shape # "absent" /\ ToList(v).error # "none"
        THEN [error |-> <<"KERNEL_VOLUMES", ToList(v).error>>, env |-> env]
        ELSE [error |-> << >>,
              env |-> [KERNEL_VOLUME_MOUNTS |->
                           IF m.shape = "absent" THEN m ELSE ToList(m).value,
                       KERNEL_VOLUMES |->
                           IF v.shape = "absent" THEN v ELSE ToList(v).value]]

EnvInputs == [KERNEL_VOLUME_MOUNTS : EnvValues, KERNEL_VOLUMES : EnvValues]
NotValidated == [error |-> <<"unset">>, env |-> [KERNEL_VOLUME_MOUNTS |-> AbsentValue,
                                                 KERNEL_VOLUMES |-> AbsentValue]]

ValidateInit ==
    /\ ClientInit
    /\ EnvInit
    /\ rdStatus = NoStatus
    /\ rdVerdict = "unset"
    /\ arg \in EnvInputs
    /\ ret = NotValidated

\* CreateKernelRequest(env=...): the validator runs at construction
Validate ==
    /\ ret = NotValidated
    /\ ret' = ConvertEnvValueToList(arg)
    /\ UNCHANGED <<arg, clientVars, readyVars, envVars>>

\* the next request
ValidateAgain ==
    /\ ret # NotValidated
    /\ arg' \in EnvInputs
    /\ ret' = NotValidated
    /\ UNCHANGED <<clientVars, readyVars, envVars>>

ValidateNext == Validate \/ ValidateAgain

ValidateSpec == ValidateInit /\ [][ValidateNext]_vars

(***************************************************************************)
(* _deserialize, taken alone.  A Python value is Value(shape, text,        *)
(* items): a primitive has its text; a list has its elements as items      *)
(* <<"", element>>; a mapping has items <<key, value>>; a model object     *)
(* has its class as text and items <<attribute, value>>; "error" is the    *)
(* exception that was raised instead of a value.                           *)
(***************************************************************************)
PyNone == Value("none", "", << >>)
PyStr(s) == Value("str", s, << >>)
PyInt(s) == Value("int", s, << >>)
PyList(elements) ==
    Value("list", "", [i \in 1..Len(elements) |-> <<"", elements[i]>>])
PyDict(pairs) == Value("dict", "", pairs)
Raised(e) == Value("error", e, << >>)

\* data[key] of a mapping
HasKey(data, key) ==
    data.shape = "dict" /\ \E i \in 1..Len(data.items) : data.items[i][1] = key
Lookup(data, key) ==
    data.items[CHOOSE i \in 1..Len(data.items) : data.items[i][1] = key][2]

\* the values given to the primitive classes
List12 == PyList(<<PyInt("1"), PyInt("2")>>)
ListA == PyList(<<PyStr("a")>>)
List300 == PyList(<<PyInt("300")>>)
DictA == PyDict(<<<<"a", PyInt("1")>>>>)
PrimitiveData ==
    {PyInt("5"), PyInt("-1"), PyStr("12"), PyStr("abc"), PyStr(""),
     Value("float", "1.5", << >>), Value("bool", "True", << >>),
     List12, ListA, List300, DictA}
PrimitiveTypes == {"float", "bool", "bytes", "str", "int"}

\* str(data)
TextOf(data) ==
    CASE data = List12 -> "[1, 2]"
      [] data = ListA -> "['a']"
      [] data = List300 -> "[300]"
      [] data = DictA -> "{'a': 1}"
      [] OTHER -> data.text

\* klass(data) in Python 3: the value, or the exception the constructor
\* raises
Construct(klass, data) ==
    LET ok(v) == [raises |-> "none", value |-> v]
        fails(e) == [raises |-> e, value |-> PyNone]
        container == data.shape \in {"list", "dict"}
    IN  CASE klass = "str" -> ok(PyStr(TextOf(data)))
          [] klass = "bool" ->
                ok(Value("bool", IF data = PyStr("") THEN "False" ELSE "True", << >>))
          [] klass = "int" ->
                IF container THEN fails("TypeError")
                ELSE IF data.shape = "str"
                THEN IF data.text = "12" THEN ok(PyInt("12")) ELSE fails("ValueError")
                ELSE IF data.shape = "int" THEN ok(data)
                ELSE ok(PyInt("1"))
          [] klass = "float" ->
                IF container THEN fails("TypeError")
                ELSE IF data.shape = "str"
                THEN IF data.text = "12" THEN ok(Value("float", "12.0", << >>))
                     ELSE fails("ValueError")
                ELSE IF data.shape = "int"
                THEN ok(Value("float", IF data.text = "5" THEN "5.0" ELSE "-1.0", << >>))
                ELSE IF data.shape = "bool" THEN ok(Value("float", "1.0", << >>))
                ELSE ok(data)
          [] klass = "bytes" ->
                IF data = PyInt("5") THEN ok(Value("bytes", "00 00 00 00 00", << >>))
                ELSE IF data.shape = "bool" THEN ok(Value("bytes", "00", << >>))
                ELSE IF data = List12 THEN ok(Value("bytes", "01 02", << >>))
                ELSE IF data \in {PyInt("-1"), List300} THEN fails("ValueError")
                ELSE fails("TypeError")

\* __deserialize_primitive: try klass(data); UnicodeEncodeError gives the
\* text of data, TypeError gives data; any other exception leaves it
DeserializePrimitive(data, klass) ==
    LET made == Construct(klass, data)
    IN  IF made.raises = "none" THEN made.value
        ELSE IF made.raises = "UnicodeEncodeError" THEN PyStr(TextOf(data))
        ELSE IF made.raises = "TypeError" THEN data
        ELSE Raised(made.raises)

\* V1KernelSpec: openapi_types, attribute_map, and the setter that refuses
\* None
V1KernelSpecFields ==
    <<[attr |-> "template", wire |-> "template", type |-> "V1PodTemplateSpec",
       required |-> TRUE]>>

\* V1Kernel, from what create writes and the model's test reads
V1KernelFields ==
    <<[attr |-> "api_version", wire |-> "apiVersion", type |-> "str", required |-> FALSE],
      [attr |-> "kind", wire |-> "kind", type |-> "str", required |-> FALSE],
      [attr |-> "metadata", wire |-> "metadata", type |-> "V1ObjectMeta", required |-> FALSE],
      [attr |-> "spec", wire |-> "spec", type |-> "V1KernelSpec", required |-> FALSE],
      [attr |-> "status", wire |-> "status", type |-> "object", required |-> FALSE]>>

\* the fields of a model class, in the order of its openapi_types; the
\* classes of kubernetes.client.models with the fields that create fills
Fields(klass) ==
    CASE klass = "V1KernelSpec" -> V1KernelSpecFields
      [] klass = "V1Kernel" -> V1KernelFields
      [] klass = "V1PodTemplateSpec" ->
            <<[attr |-> "metadata", wire |-> "metadata", type |-> "V1ObjectMeta",
               required |-> FALSE],
              [attr |-> "spec", wire |-> "spec", type |-> "V1PodSpec",
               required |-> FALSE]>>
      [] klass = "V1ObjectMeta" ->
            <<[attr |-> "labels", wire |-> "labels", type |-> "dict(str, str)",
               required |-> FALSE],
              [attr |-> "name", wire |-> "name", type |-> "str", required |-> FALSE]>>
      [] klass = "V1PodSpec" ->
            <<[attr |-> "containers", wire |-> "containers",
               type |-> "list[V1Container]", required |-> TRUE],
              [attr |-> "restart_policy", wire |-> "restartPolicy", type |-> "str",
               required |-> FALSE]>>
      [] klass = "V1Container" ->
            <<[attr |-> "image", wire |-> "image", type |-> "str", required |-> FALSE],
              [attr |-> "name", wire |-> "name", type |-> "str", required |-> TRUE]>>
      [] OTHER -> << >>

\* re.match(r"list\[(.*)\]", klass).group(1) and
\* re.match(r"dict\(([^,]*), (.*)\)", klass).group(2)
IsListType(klass) == klass \in {"list[V1Container]", "list[str]"}
IsDictType(klass) == klass \in {"dict(str, str)"}
SubKls(klass) == IF klass = "list[V1Container]" THEN "V1Container" ELSE "str"

\* a lookup by the attribute's name instead of its wire key
WireKey_AttributeName(field) == field.attr

\* klass.attribute_map[attr]
WireKey(field) == field.wire

RECURSIVE Deserialize(_, _)
\* __deserialize_model: the fields whose wire key data holds, deserialized;
\* klass(**kwargs), whose setters raise ValueError for a required field
\* that is None
DeserializeModel(data, klass) ==
    LET fields == Fields(klass)
        vals == [i \in 1..Len(fields) |->
                    IF HasKey(data, WireKey(fields[i]))
                    THEN Deserialize(Lookup(data, WireKey(fields[i])), fields[i].type)
                    ELSE PyNone]
        failed == {i \in 1..Len(fields) : vals[i].shape = "error"}
    IN  IF Len(fields) = 0 THEN data
        ELSE IF failed # {} THEN vals[CHOOSE i \in failed : \A j \in failed : i <= j]
        ELSE IF \E i \in 1..Len(fields) : fields[i].required /\ vals[i] = PyNone
        THEN Raised("ValueError")
        ELSE Value("model", klass,
                   [i \in 1..Len(fields) |-> <<fields[i].attr, vals[i]>>])

\* _deserialize
Deserialize(data, klass) ==
    IF data = PyNone THEN PyNone
    ELSE IF IsListType(klass) \/ IsDictType(klass)
    THEN LET vals == [i \in 1..Len(data.items) |->
                         <<data.items[i][1], Deserialize(data.items[i][2], SubKls(klass))>>]
             failed == {i \in 1..Len(vals) : vals[i][2].shape = "error"}
         IN  IF failed # {}
             THEN vals[CHOOSE i \in failed : \A j \in failed : i <= j][2]
             ELSE Value(data.shape, "", vals)
    ELSE IF klass \in PrimitiveTypes THEN DeserializePrimitive(data, klass)
    ELSE IF klass = "object" THEN data
    ELSE DeserializeModel(data, klass)

RECURSIVE ToDict(_)
\* a to_dict that leaves the elements of a list as they are
ToDictValue_ListsKept(value) ==
    IF value.shape = "model" THEN ToDict(value)
    ELSE IF value.shape = "dict"
    THEN Value(value.shape, "",
               [i \in 1..Len(value.items) |->
                   <<value.items[i][1],
                     IF value.items[i][2].shape = "model"
                     THEN ToDict(value.items[i][2]) ELSE value.items[i][2]>>])
    ELSE value

\* to_dict's handling of one attribute's value: x.to_dict() for the
\* elements of a list, for a model and for the values of a mapping
ToDictValue(value) ==
    IF value.shape = "model" THEN ToDict(value)
    ELSE IF value.shape \in {"list", "dict"}
    THEN Value(value.shape, "",
               [i \in 1..Len(value.items) |->
                   <<value.items[i][1],
                     IF value.items[i][2].shape = "model"
                     THEN ToDict(value.items[i][2]) ELSE value.items[i][2]>>])
    ELSE value

\* to_dict: result[attr] for every attribute of openapi_types
ToDict(x) ==
    PyDict([i \in 1..Len(x.items) |-> <<x.items[i][1], ToDictValue(x.items[i][2])>>])

\* data and klass of the calls of _deserialize tried: for the model classes
\* payloads with every field's wire key absent or present; for the
\* primitive classes every value of PrimitiveData; and, as x, the model
\* objects that the payloads deserialize to, not yet turned into dicts
NotYet == Value("unset", "", << >>)
DeserializeInputs ==
    LET with(key, values) == {<< >>} \cup {<<<<key, v>>>> : v \in values}
        metas ==
            {PyDict(l \o n) :
                l \in with("labels", {PyDict(<<<<"a", PyStr("b")>>>>)}),
                n \in with("name", {PyStr("n")})}
        containers ==
            {PyDict(i \o n) :
                i \in with("image", {PyStr("img")}),
                n \in with("name", {PyStr("main")})}
        podspecs ==
            {PyDict(c \o r) :
                c \in with("containers",
                           {PyList(<< >>)} \cup {PyList(<<x>>) : x \in containers}),
                r \in with("restartPolicy", {PyStr("Never")})}
        templates ==
            {PyDict(m \o sp) :
                m \in with("metadata", metas), sp \in with("spec", podspecs)}
        kernelspecs ==
            {PyDict(t) : t \in with("template", templates \cup {PyNone})}
        kernels ==
            {PyDict(a \o k \o sp \o st) :
                a \in with("apiVersion", {PyStr("jupyter.org/v1beta1")}),
                k \in with("kind", {PyStr("Kernel")}),
                sp \in with("spec", {PyDict(<<<<"template", PyDict(<< >>)>>>>)}),
                st \in with("status", {PyDict(<< >>)})}
        inputs(datas, klass) == [data : datas, klass : {klass}, x : {PyNone}]
        payloads ==
            inputs(metas, "V1ObjectMeta") \cup inputs(containers, "V1Container")
              \cup inputs(podspecs, "V1PodSpec")
              \cup inputs(templates, "V1PodTemplateSpec")
              \cup inputs(kernelspecs, "V1KernelSpec")
              \cup inputs(kernels, "V1Kernel")
        objects ==
            {Deserialize(q.data, q.klass) : q \in payloads} \ {Raised("ValueError")}
    IN  payloads
          \cup [data : PrimitiveData, klass : PrimitiveTypes, x : {PyNone}]
          \cup {[data |-> NotYet, klass |-> x.text, x |-> x] : x \in objects}

DeserializeInit ==
    /\ ClientInit
    /\ EnvInit
    /\ rdStatus = NoStatus
    /\ rdVerdict = "unset"
    /\ arg \in DeserializeInputs
    /\ ret = NotYet

\* x.to_dict()
Serialize ==
    /\ arg.data = NotYet
    /\ arg' = [arg EXCEPT !.data = ToDict(arg.x)]
    /\ UNCHANGED <<ret, clientVars, readyVars, envVars>>

\* self._deserialize(data, klass)
DeserializeApply ==
    /\ arg.data # NotYet
    /\ ret = NotYet
    /\ ret' = Deserialize(arg.data, arg.klass)
    /\ UNCHANGED <<arg, clientVars, readyVars, envVars>>

\* the next call
DeserializeAgain ==
    /\ ret # NotYet
    /\ arg' \in DeserializeInputs
    /\ ret' = NotYet
    /\ UNCHANGED <<clientVars, readyVars, envVars>>

DeserializeNext == Serialize \/ DeserializeApply \/ DeserializeAgain

DeserializeSpec == DeserializeInit /\ [][DeserializeNext]_vars

(***************************************************************************)
(* The watch with the gateway's side of it.  w.stream lists the namespace  *)
(* with watch=True and no resource_version: the gateway first sends an     *)
(* ADDED event for every resource the namespace holds, as it is at that    *)
(* moment, and after that an event for every change.  One call is made;    *)
(* resources appear and become ready until its watch opens, and once it    *)
(* is open only the other resources of the namespace change.  The gateway  *)
(* delivers what it has to send before the clock goes on.                  *)
(***************************************************************************)
\* no call has opened its watch
Quiet == \A c \in Calls : pc[c] \in {"idle", "create", "get", "wait"}

\* another user of the cluster creates a resource
Appear(key) ==
    /\ Quiet
    /\ key \notin cluster
    /\ ClusterChange(key)

\* the controller has started the kernel: the resource's status gets
\* Ready=True
BecomeReady(key) ==
    /\ Quiet
    /\ key \in cluster
    /\ key \notin ready
    /\ ready' = ready \cup {key}
    /\ UNCHANGED <<clientVars, readyVars, fnVars, queue>>

\* the event the gateway sends for a resource as it is
StateEvent(type, key) ==
    [type |-> type, name |-> key[2],
     status |-> IF key \in ready THEN ReadyTrue
                ELSE WithConditions(<<Cond("Ready", "False")>>),
     annotations |-> FullAnnotations]

\* the watch opens: the resources of the namespace are on its stream, in
\* the gateway's order
SnapshotOpen(c) ==
    /\ OpenStream(c)
    /\ LET held == {k \in cluster : k[1] = tns[c]}
       IN  \E order \in {o \in Orderings(held) : Len(o) = Cardinality(held)} :
              queue' = [queue EXCEPT ![c] =
                           [i \in 1..Len(order) |-> StateEvent("ADDED", order[i])]]
    /\ UNCHANGED <<readyVars, fnVars, ready>>

\* the loop reads the next event of its stream
Deliver(c) ==
    /\ queue[c] # << >>
    /\ ReadEvent(c, Head(queue[c]))
    /\ queue' = [queue EXCEPT ![c] = Tail(@)]
    /\ UNCHANGED <<readyVars, fnVars, ready>>

\* another resource of the watched namespace changes
OtherChange(c, key) ==
    /\ pc[c] = "watching"
    /\ queue[c] = << >>
    /\ key \in cluster
    /\ key[1] = tns[c]
    /\ key[2] # tname[c]
    /\ queue' = [queue EXCEPT ![c] = <<StateEvent("MODIFIED", key)>>]
    /\ UNCHANGED <<clientVars, readyVars, fnVars, ready>>

\* time passes once the streams are read up
SnapshotTick ==
    /\ \A c \in Calls : queue[c] = << >>
    /\ Tick

\* the stream ends by itself, with nothing left on it
SnapshotEnd(c) ==
    /\ queue[c] = << >>
    /\ WatchEnd(c)

SnapshotNext ==
    \/ \E c \in SeqCalls, m \in {"create", "acreate"}, r \in ConcRequests,
          t \in CallTimeouts : CreateBegin(c, m, r, t)
    \/ \E c \in SeqCalls : CreateSubmit(c)
    \/ \E c \in SeqCalls, m \in {"get", "aget"}, k \in Targets,
          t \in CallTimeouts : GetBegin(c, m, k[2], k[1], t)
    \/ \E c \in SeqCalls : GetSubmit(c)
    \/ \E c \in SeqCalls : SnapshotOpen(c)
    \/ \E c \in SeqCalls : Deliver(c)
    \/ \E c \in SeqCalls, key \in Targets : OtherChange(c, key)
    \/ \E c \in SeqCalls : SnapshotEnd(c)
    \/ \E c \in SeqCalls : CleanupDelete(c)
    \/ SnapshotTick
    \/ \E key \in Targets : Appear(key)
    \/ \E key \in Targets : BecomeReady(key)

SnapshotSpec == Init /\ [][SnapshotNext]_vars

(***************************************************************************)
(* What the claims speak of.                                               *)
(***************************************************************************)
IsCreate(c) == op[c] \in {"create", "acreate"}
IsGet(c) == op[c] \in {"get", "aget"}

\* the answer to the call's createResource, 0 before it
CreateAnswer(c) ==
    IF IsCreate(c) /\ Len(log[c]) > 0 THEN log[c][1].status ELSE 0

\* the gateway calls of one kind that the call has issued
Issued(c, kind) == Cardinality(CallsOf(log[c], kind))

\* the env lacks a non-empty KERNEL_IMAGE or a non-empty KERNEL_ID
Incomplete(r) ==
    \/ r.KERNEL_IMAGE \in {NoVal, ""}
    \/ r.KERNEL_ID \in {NoVal, ""}

\* how a call that reached get can end
GetOutcomes ==
    {"Kernel", "KeyError", "JSONDecodeError", "RuntimeError:get",
     "RuntimeError:timeout", "RuntimeError:delete", "StreamError"}

(***************************************************************************)
(* C1: a create or acreate whose request lacks a non-empty KERNEL_IMAGE or *)
(* a non-empty KERNEL_ID ends with the validation error (ValueError) and   *)
(* has issued no gateway call; a call that has issued a gateway call had   *)
(* a request with both.                                                    *)
(***************************************************************************)
C1_ValidationBeforeGateway ==
    \A c \in Calls :
        IsCreate(c) =>
            /\ Incomplete(req[c]) =>
                  /\ pc[c] = "done"
                  /\ outcome[c] = "ValueError"
                  /\ log[c] = << >>
            /\ log[c] # << >> => ~Incomplete(req[c])
            /\ outcome[c] = "ValueError" => Incomplete(req[c])

C1_Witness ==
    \E c \in Calls :
        /\ op[c] = "acreate"
        /\ req[c].KERNEL_IMAGE = "img"
        /\ req[c].KERNEL_ID = ""
        /\ outcome[c] = "ValueError"
        /\ log[c] = << >>

(***************************************************************************)
(* C3: when createResource is answered 409, the call has issued exactly    *)
(* one createResource, its next gateway call is a getResource for the same *)
(* name and namespace, and it ends the way that get ends.                  *)
(***************************************************************************)
C3_ConflictGoesToGet ==
    \A c \in Calls :
        CreateAnswer(c) = CONFLICT =>
            /\ Issued(c, "createResource") = 1
            /\ pc[c] # "get" =>
                  /\ Len(log[c]) >= 2
                  /\ log[c][2].call = "getResource"
                  /\ log[c][2].name = log[c][1].name
                  /\ log[c][2].ns = log[c][1].ns
            /\ pc[c] = "get" => Len(log[c]) = 1
            /\ pc[c] = "done" => outcome[c] \in GetOutcomes
            /\ pc[c] \in {"get", "wait", "watching", "cleanup", "done"}

C3_Witness ==
    \E c \in Calls :
        /\ CreateAnswer(c) = CONFLICT
        /\ op[c] = "create"
        /\ outcome[c] = "Kernel"

(***************************************************************************)
(* C10: when createResource is answered 403, create and acreate end with   *)
(* KernelCreationForbiddenError, not with the RuntimeError of the other    *)
(* failures, and the createResource is the only gateway call issued.       *)
(***************************************************************************)
C10_ForbiddenIsDedicated ==
    \A c \in Calls :
        CreateAnswer(c) = FORBIDDEN =>
            /\ pc[c] = "done"
            /\ outcome[c] = "KernelCreationForbiddenError"
            /\ outcome[c] # "RuntimeError:create"
            /\ Len(log[c]) = 1
            /\ Issued(c, "getResource") = 0
            /\ Issued(c, "watchResources") = 0
            /\ Issued(c, "deleteResource") = 0

C10_Witness ==
    \E c \in Calls :
        /\ op[c] = "acreate"
        /\ CreateAnswer(c) = FORBIDDEN
        /\ pc[c] = "done"

\* the timeout in effect for the call: the caller's, else the client's
CallTimeout(c) == IF IsCreate(c) THEN tmo[c] ELSE gtmo[c]

\* the call has opened its watch
Watched(c) == Issued(c, "watchResources") > 0

\* the deleteResource calls for the call's own target
TargetDeletes(c) ==
    {i \in CallsOf(log[c], "deleteResource") :
        log[c][i].name = tname[c] /\ log[c][i].ns = tns[c]}

(***************************************************************************)
(* C2: a create or get whose watch saw no Ready=True event of the target   *)
(* and did not break ends with the timeout error, having issued exactly    *)
(* one deleteResource for the target's name and namespace.  The code       *)
(* issues none when the stream ends by itself.                             *)
(***************************************************************************)
C2_TimeoutDeletesOnce ==
    \A c \in Calls :
        (/\ pc[c] = "done"
         /\ Watched(c)
         /\ ~sawReady[c]
         /\ outcome[c] # "StreamError") =>
            /\ outcome[c] = "RuntimeError:timeout"
            /\ Cardinality(TargetDeletes(c)) = 1

(***************************************************************************)
(* C4: when the cleanup's deleteResource is answered with an error other   *)
(* than 404, the call still ends with the timeout error.  The code ends    *)
(* with delete's own RuntimeError.                                         *)
(***************************************************************************)
C4_CleanupFailureKeepsTimeout ==
    \A c \in Calls :
        (/\ pc[c] = "done"
         /\ IsCreate(c) \/ IsGet(c)
         /\ \E i \in CallsOf(log[c], "deleteResource") :
               log[c][i].status \notin {200, NOT_FOUND}) =>
            outcome[c] = "RuntimeError:timeout"

(***************************************************************************)
(* C5: the watch of a create or get runs with the call's effective         *)
(* timeout: timeout_seconds and the deadline are the caller's timeout, or  *)
(* the client's default when none is given.  The code runs it with the     *)
(* default of _wait_for_kernel_ready's own parameter.                      *)
(***************************************************************************)
C5_WatchUsesCallTimeout ==
    \A c \in Calls :
        /\ \A i \in CallsOf(log[c], "watchResources") :
              log[c][i].timeout = CallTimeout(c)
        /\ pc[c] \in {"watching", "cleanup"} => wtmo[c] = CallTimeout(c)

(***************************************************************************)
(* C6: a call that returned a Kernel has seen, on its own watch, an ADDED  *)
(* or MODIFIED event of the target with a Ready condition of status        *)
(* "True"; a found resource or a create conflict alone gives no result.    *)
(***************************************************************************)
C6_ResultOnlyAfterReady ==
    \A c \in Calls :
        (outcome[c] = "Kernel" \/ result[c] # NoResult) =>
            /\ sawReady[c]
            /\ Watched(c)
            /\ IsCreate(c) \/ IsGet(c)

C6_Witness ==
    \E c \in Calls :
        /\ op[c] = "aget"
        /\ outcome[c] = "Kernel"
        /\ result[c].kernel_id = "k1"

(***************************************************************************)
(* C8: the watch stream is open only while the call is in the loop of      *)
(* _wait_for_kernel_ready or in its cleanup; whichever way the call ended  *)
(* (ready, timeout with or without delete, stream end, an exception of the *)
(* stream or of the cleanup's delete), the stream is closed.               *)
(***************************************************************************)
C8_StreamClosedOnExit ==
    \A c \in Calls :
        /\ pc[c] \notin {"watching", "cleanup"} => ~watchOpen[c]
        /\ pc[c] \in {"watching", "cleanup"} => watchOpen[c]

C8_Witness ==
    \E c \in Calls :
        /\ pc[c] = "done"
        /\ outcome[c] = "RuntimeError:delete"
        /\ Watched(c)
        /\ ~watchOpen[c]

\* the status block has a Ready condition, and every one it has is "True"
ClearlyReady(st) ==
    /\ st.kind = "conditions"
    /\ \E i \in 1..Len(st.conditions) : st.conditions[i].type = "Ready"
    /\ \A i \in 1..Len(st.conditions) :
          st.conditions[i].type = "Ready" => st.conditions[i].status = "True"

\* the ADDED and MODIFIED events without a status block
NoStatusEvents ==
    {ev \in Events : ev.type \in {"ADDED", "MODIFIED"} /\ ev.status = NoStatus}

\* the ADDED and MODIFIED events with Ready=True
ReadyEvents ==
    {ev \in Events : ev.type \in {"ADDED", "MODIFIED"} /\ ClearlyReady(ev.status)}

(***************************************************************************)
(* C9: an ADDED or MODIFIED event of the target without a status block,    *)
(* read before the call's deadline (the caller's timeout, else the         *)
(* client's), leaves the call waiting with no outcome; and after such an   *)
(* event, an ADDED or MODIFIED event of the target with Ready=True ends    *)
(* the wait with the ready object, never with the timeout.  The code's     *)
(* loop runs with the deadline of C5, so that an event without status read *)
(* after 60 s and before the call's deadline ends the wait.                *)
(***************************************************************************)
C9_NoStatusKeepsWaiting ==
    [][\A c \in Calls :
          /\ (/\ pc[c] = "watching"
              /\ ~DeadlinePassed(elapsed[c], CallTimeout(c))
              /\ sawNoStatus'[c]
              /\ \E ev \in NoStatusEvents :
                    ev.name = tname[c] /\ WatchEvent(c, ev)) =>
                 /\ pc'[c] = "watching"
                 /\ outcome'[c] = "none"
                 /\ watchOpen'[c]
                 /\ log'[c] = log[c]
          /\ (/\ pc[c] = "watching"
              /\ sawNoStatus[c]
              /\ sawReady'[c]
              /\ \E ev \in ReadyEvents :
                    ev.name = tname[c] /\ WatchEvent(c, ev)) =>
                 /\ pc'[c] = "done"
                 /\ outcome'[c] \in {"Kernel", "KeyError", "JSONDecodeError"}
                 /\ log'[c] = log[c]]_vars

\* the status block has a conditions list with a Ready condition "True"
HasReadyTrue(st) ==
    /\ st.kind = "conditions"
    /\ \E i \in 1..Len(st.conditions) :
          /\ st.conditions[i].type = "Ready"
          /\ st.conditions[i].status = "True"

\* the first Ready condition of the conditions list is "True"
FirstReadyTrue(st) ==
    /\ st.kind = "conditions"
    /\ \E i \in 1..Len(st.conditions) :
          /\ st.conditions[i].type = "Ready"
          /\ st.conditions[i].status = "True"
          /\ \A j \in 1..(i - 1) : st.conditions[j].type # "Ready"

(***************************************************************************)
(* C7, as claimed: a status block is ready iff its conditions contain a    *)
(* condition of type "Ready" and status "True".                            *)
(***************************************************************************)
C7_ReadyIffSomeReadyTrue ==
    rdVerdict # "unset" => (rdVerdict = "ready" <=> HasReadyTrue(rdStatus))

(***************************************************************************)
(* C7, amended: a status block is ready iff its conditions contain a       *)
(* condition of type "Ready" and the first such condition has status       *)
(* "True".  [{Ready, False}] is not ready, [{Ready, True}] is,             *)
(* [{Other, True}], an empty and an absent conditions list are not.        *)
(***************************************************************************)
C7_ReadyIffFirstReadyTrue ==
    rdVerdict # "unset" =>
        /\ rdVerdict = "ready" <=> FirstReadyTrue(rdStatus)
        /\ rdStatus = WithConditions(<<Cond("Ready", "False")>>) =>
              rdVerdict = "notready"
        /\ rdStatus = WithConditions(<<Cond("Ready", "True")>>) =>
              rdVerdict = "ready"
        /\ rdStatus \in {WithConditions(<<Cond("Other", "True")>>),
                         WithConditions(<< >>), StatusNoConditions,
                         EmptyStatus, NoStatus} =>
              rdVerdict = "notready"

C7_Witness ==
    /\ rdVerdict = "notready"
    /\ rdStatus = WithConditions(<<Cond("Ready", "False"), Cond("Ready", "True")>>)

(***************************************************************************)
(* C11: a create or acreate issues at most one createResource; when it is  *)
(* answered with an error other than 409 and 403, the call ends with the   *)
(* RuntimeError of create and the createResource is the only gateway call  *)
(* it has issued.                                                          *)
(***************************************************************************)
C11_OtherErrorsFailAtOnce ==
    \A c \in Calls :
        IsCreate(c) =>
            /\ Issued(c, "createResource") <= 1
            /\ CreateAnswer(c) \notin {0, 201, CONFLICT, FORBIDDEN} =>
                  /\ pc[c] = "done"
                  /\ outcome[c] = "RuntimeError:create"
                  /\ Len(log[c]) = 1

C11_Witness ==
    \E c \in Calls :
        /\ op[c] = "create"
        /\ CreateAnswer(c) = 500
        /\ outcome[c] = "RuntimeError:create"

\* the answer to the last gateway call of a log
LastStatus(l) == l[Len(l)].status

(***************************************************************************)
(* C12: a delete whose deleteResource is answered not-found returns        *)
(* without raising, every time it is called, and the answer comes only for *)
(* a resource the cluster does not hold and leaves the cluster as it was.  *)
(***************************************************************************)
C12_DeleteAbsentIsSuccess ==
    [][\A c \in Calls :
          (/\ op[c] = "delete"
           /\ pc[c] = "delete"
           /\ pc'[c] = "done"
           /\ LastStatus(log'[c]) = NOT_FOUND) =>
              /\ outcome'[c] = "None"
              /\ cluster' = cluster
              /\ <<tns[c], tname[c]>> \notin cluster]_vars

C12_Witness ==
    \E c \in Calls :
        /\ op[c] = "delete"
        /\ pc[c] = "done"
        /\ Len(log[c]) = 1
        /\ LastStatus(log[c]) = NOT_FOUND
        /\ outcome[c] = "None"
        /\ <<tns[c], tname[c]>> \notin cluster

(***************************************************************************)
(* C13: a delete or adelete whose deleteResource is answered with an error *)
(* other than not-found ends with the RuntimeError of delete.  adelete     *)
(* never reads the answer and returns None.                                *)
(***************************************************************************)
C13_DeleteErrorsRaise ==
    \A c \in Calls :
        (/\ op[c] \in {"delete", "adelete"}
         /\ pc[c] = "done"
         /\ LastStatus(log[c]) \notin {200, NOT_FOUND}) =>
            outcome[c] = "RuntimeError:delete"

IsDeleteById(c) == op[c] \in {"delete_by_kernel_id", "adelete_by_kernel_id"}

(***************************************************************************)
(* C19: delete_by_kernel_id (and adelete_by_kernel_id) first lists with    *)
(* the selector jupyter.org/kernel-id=<id>.  On an empty listing it ends   *)
(* without error and without any deleteResource; on a listing of one or    *)
(* more items it issues one deleteResource, for the name and namespace of  *)
(* the listing's first item, and no other gateway call.                    *)
(***************************************************************************)
C19_DeleteByIdTakesFirst ==
    \A c \in Calls :
        IsDeleteById(c) =>
            /\ Len(log[c]) >= 1
            /\ log[c][1].call = "listResources"
            /\ log[c][1].selector[1] = KernelIdLabel
            /\ log[c][1].selector[2] \in KernelIds
            /\ Issued(c, "listResources") = 1
            /\ (log[c][1].status = 200 /\ log[c][1].items = << >>) =>
                  /\ pc[c] = "done"
                  /\ outcome[c] = "None"
                  /\ Len(log[c]) = 1
            /\ log[c][1].items # << >> =>
                  /\ pc[c] \in {"delete", "done"}
                  /\ pc[c] = "delete" => Len(log[c]) = 1
                  /\ pc[c] = "done" =>
                        /\ Len(log[c]) = 2
                        /\ log[c][2].call = "deleteResource"
                        /\ log[c][2].ns = log[c][1].items[1][1]
                        /\ log[c][2].name = log[c][1].items[1][2]

C19_Witness ==
    \E c \in Calls :
        /\ op[c] = "delete_by_kernel_id"
        /\ pc[c] = "done"
        /\ Len(log[c][1].items) >= 2
        /\ Len(log[c]) = 2
        /\ log[c][2].status = 200
        /\ outcome[c] = "None"

(***************************************************************************)
(* C18: a get or aget, called by the user or reached from create, whose    *)
(* getResource is answered not-found ends with the RuntimeError of get and *)
(* no result, and has opened no watch and issued no deleteResource.        *)
(***************************************************************************)
C18_GetNotFoundRaises ==
    \A c \in Calls :
        (/\ IsGet(c) \/ IsCreate(c)
         /\ \E i \in CallsOf(log[c], "getResource") :
               log[c][i].status = NOT_FOUND) =>
            /\ pc[c] = "done"
            /\ outcome[c] = "RuntimeError:get"
            /\ result[c] = NoResult
            /\ LastStatus(log[c]) = NOT_FOUND
            /\ Issued(c, "getResource") = 1
            /\ Issued(c, "watchResources") = 0
            /\ Issued(c, "deleteResource") = 0

C18_Witness ==
    \E c \in Calls :
        /\ op[c] = "acreate"
        /\ CreateAnswer(c) = 201
        /\ Len(log[c]) = 2
        /\ log[c][2].call = "getResource"
        /\ log[c][2].status = NOT_FOUND
        /\ outcome[c] = "RuntimeError:get"

\* the blocking method of a non-blocking one
BlockingOf(method) ==
    CASE method = "acreate" -> "create"
      [] method = "aget" -> "get"
      [] method = "adelete" -> "delete"
      [] method = "adelete_by_kernel_id" -> "delete_by_kernel_id"
      [] OTHER -> "none"

\* the gateway calls of a log with their arguments, without the answers
CallsIssued(l) ==
    [i \in 1..Len(l) |->
        <<l[i].call, l[i].ns, l[i].name, l[i].timeout,
          IF l[i].call = "listResources" THEN l[i].selector ELSE << >>>>]

\* the answers to the gateway calls of a log
AnswersGiven(l) ==
    [i \in 1..Len(l) |->
        <<l[i].status,
          IF l[i].call = "listResources" THEN l[i].items ELSE << >>>>]

(***************************************************************************)
(* C14: a blocking method and its non-blocking variant, called with the    *)
(* same arguments and given the same answers by the gateway (no watch      *)
(* opened), have issued the same gateway calls with the same arguments and *)
(* ended with the same outcome.  adelete returns None where delete raises, *)
(* and delete_by_kernel_id lists without the timeout that                  *)
(* adelete_by_kernel_id passes.                                            *)
(***************************************************************************)
C14_VariantsBehaveAlike ==
    \A c, d \in Calls :
        (/\ pc[c] = "done"
         /\ pc[d] = "done"
         /\ IsAsync(op[d])
         /\ op[c] = BlockingOf(op[d])
         /\ req[c] = req[d]
         /\ tmo[c] = tmo[d]
         /\ IsDeleteById(c) \/ (tname[c] = tname[d] /\ tns[c] = tns[d])
         /\ Issued(c, "watchResources") = 0
         /\ Issued(d, "watchResources") = 0
         /\ Len(log[c]) > 0
         /\ Len(log[c]) = Len(log[d])
         /\ AnswersGiven(log[c]) = AnswersGiven(log[d])) =>
            /\ CallsIssued(log[c]) = CallsIssued(log[d])
            /\ outcome[c] = outcome[d]
            /\ result[c] = result[d]

\* two different calls that are creates of the same name and namespace and
\* whose createResource the gateway has answered with success or conflict
RacingCreates(c, d) ==
    /\ c # d
    /\ IsCreate(c)
    /\ IsCreate(d)
    /\ tname[c] = tname[d]
    /\ tns[c] = tns[d]
    /\ CreateAnswer(c) \in {201, CONFLICT}
    /\ CreateAnswer(d) \in {201, CONFLICT}

\* a deleteResource of the call has removed a resource
HasDeleted(c) ==
    \E i \in CallsOf(log[c], "deleteResource") : log[c][i].status = 200

\* the call whose create met a conflict went on to get, with no other create
FellThroughToGet(c) ==
    /\ Issued(c, "createResource") = 1
    /\ \/ pc[c] = "get" /\ Len(log[c]) = 1
       \/ /\ Len(log[c]) >= 2
          /\ log[c][2].call = "getResource"
          /\ log[c][2].name = tname[c]
          /\ log[c][2].ns = tns[c]

(***************************************************************************)
(* C15, as claimed: of two concurrent creates of the same name, exactly    *)
(* one createResource succeeds and the other meets a conflict and falls    *)
(* through to get without a second create.                                 *)
(***************************************************************************)
C15_ExactlyOneCreateSucceeds ==
    \A c, d \in Calls :
        RacingCreates(c, d) =>
            /\ (CreateAnswer(c) = 201) # (CreateAnswer(d) = 201)
            /\ CreateAnswer(c) = CONFLICT => FellThroughToGet(c)
            /\ Issued(c, "createResource") = 1

(***************************************************************************)
(* C15, amended: two concurrent creates of the same name both reach the    *)
(* gateway and neither issues a second createResource; a create that meets *)
(* a conflict falls through to get; and as long as no timeout cleanup of   *)
(* either call has deleted the resource, exactly one of the two            *)
(* createResource calls succeeds and the resource is there.                *)
(***************************************************************************)
C15_OneCreateSucceedsUntilCleanup ==
    \A c, d \in Calls :
        RacingCreates(c, d) =>
            /\ Issued(c, "createResource") = 1
            /\ CreateAnswer(c) = CONFLICT => FellThroughToGet(c)
            /\ (~HasDeleted(c) /\ ~HasDeleted(d)) =>
                  /\ (CreateAnswer(c) = 201) # (CreateAnswer(d) = 201)
                  /\ <<tns[c], tname[c]>> \in cluster

C15_Witness ==
    \E c, d \in Calls :
        /\ RacingCreates(c, d)
        /\ op[c] = "create"
        /\ op[d] = "create"
        /\ CreateAnswer(c) = 201
        /\ pc[c] = "watching"
        /\ CreateAnswer(d) = CONFLICT
        /\ outcome[d] = "Kernel"

(***************************************************************************)
(* C16: a call that waits for the readiness of X is not moved by what      *)
(* happens to another name Y: an event of Y leaves it waiting, with the    *)
(* gateway calls it has issued and no outcome, and a step of another call  *)
(* that works on Y leaves the resource X as it is.  The code tests the     *)
(* deadline on the events of every name, so that an event of Y read after  *)
(* the deadline makes the call delete X, which without that event it does  *)
(* not (C2).                                                               *)
(***************************************************************************)
C16_OtherNamesDoNotInterfere ==
    [][\A c \in Calls :
          /\ (/\ pc[c] = "watching"
              /\ \E ev \in ConcEvents :
                    ev.name # tname[c] /\ ConcWatchEvent(c, ev)) =>
                 /\ pc'[c] = "watching"
                 /\ log'[c] = log[c]
                 /\ outcome'[c] = "none"
          /\ \A d \in Calls \ {c} :
                (/\ pc[c] # "idle"
                 /\ pc[d] # "idle"
                 /\ ~IsDeleteById(d)
                 /\ <<tns[c], tname[c]>> # <<tns[d], tname[d]>>
                 /\ log'[d] # log[d]) =>
                    /\ (<<tns[c], tname[c]>> \in cluster') =
                          (<<tns[c], tname[c]>> \in cluster)
                    /\ pc'[c] = pc[c]
                    /\ log'[c] = log[c]
                    /\ outcome'[c] = outcome[c]]_vars

(***************************************************************************)
(* C17: when a create finds the name taken by the resource an earlier      *)
(* create made, it issues its one createResource, goes on to get, and, if  *)
(* both calls return a Kernel, returns the kernel id the first returned,   *)
(* whatever KERNEL_ID its own request names; the resource is still the     *)
(* one resource of that name.                                              *)
(***************************************************************************)
C17_SecondCreateResolvesThroughGet ==
    \A c, d \in Calls :
        (/\ RacingCreates(c, d)
         /\ CreateAnswer(c) = 201
         /\ CreateAnswer(d) = CONFLICT) =>
            /\ FellThroughToGet(d)
            /\ Issued(c, "createResource") = 1
            /\ (outcome[c] = "Kernel" /\ outcome[d] = "Kernel") =>
                  /\ result[d].kernel_id = result[c].kernel_id
                  /\ result[d].name = result[c].name
                  /\ <<tns[c], tname[c]>> \in cluster

C17_Witness ==
    \E c, d \in Calls :
        /\ RacingCreates(c, d)
        /\ CreateAnswer(c) = 201
        /\ CreateAnswer(d) = CONFLICT
        /\ req[c].KERNEL_ID = "k2"
        /\ req[d].KERNEL_ID = "k1"
        /\ outcome[c] = "Kernel"
        /\ outcome[d] = "Kernel"
        /\ result[d].kernel_id = "k2"

(***************************************************************************)
(* C20: while an acreate or aget waits for readiness, another operation    *)
(* pending on the same event loop can start: the waiting coroutine has     *)
(* handed the loop back.  In the code aget runs the blocking loop of       *)
(* _wait_for_kernel_ready inside the coroutine and never awaits anything   *)
(* that suspends, so the loop is held until the call is done.              *)
(***************************************************************************)
C20_WaitingCoroutineYields ==
    \A c \in Calls :
        (/\ op[c] \in {"acreate", "aget"}
         /\ pc[c] = "watching") =>
            \A d \in Calls \ {c} :
                pc[d] = "idle" =>
                    ENABLED (\E k \in ConcTargets :
                                /\ MayStart(d, "aget")
                                /\ GetBegin(d, "aget", k[2], k[1], 0))

(***************************************************************************)
(* C29: a get, and a create whose createResource was answered with a       *)
(* conflict, work on a resource that this call did not make; such a call   *)
(* never removes a resource, also when it sees no readiness in time.  In   *)
(* the code the timeout's cleanup is in _wait_for_kernel_ready, which get  *)
(* enters whoever made the resource, so these calls delete it too.         *)
(***************************************************************************)
OnOlderResource(c) ==
    \/ IsGet(c)
    \/ IsCreate(c) /\ CreateAnswer(c) = CONFLICT

(***************************************************************************)
(* C25: the request is accepted exactly when each of KERNEL_VOLUMES and    *)
(* KERNEL_VOLUME_MOUNTS that env holds is a list or a string that decodes  *)
(* to a list; in the accepted request a list is the list that was given    *)
(* and a string is replaced by the list it decodes to; every other value   *)
(* makes the construction fail.                                            *)
(***************************************************************************)
Validated == ret # NotValidated

DecodesToList(v) ==
    /\ v.shape = "str"
    /\ v.text \in {"[]", "[\"v\"]"}

Acceptable(v) == v.shape \in {"absent", "list"} \/ DecodesToList(v)

Normalised(v) ==
    IF v.shape # "str" THEN v
    ELSE IF v.text = "[]" THEN ListValue(<< >>) ELSE ListValue(<<"v">>)

VolumeKeys == {"KERNEL_VOLUME_MOUNTS", "KERNEL_VOLUMES"}

C25_ListOrJsonListAccepted ==
    Validated =>
        /\ ret.error = << >> <=> \A k \in VolumeKeys : Acceptable(arg[k])
        /\ ret.error = << >> =>
              \A k \in VolumeKeys : ret.env[k] = Normalised(arg[k])

\* a string that decodes to a one-element list was accepted next to a list
C25_Witness ==
    /\ Validated
    /\ arg.KERNEL_VOLUME_MOUNTS = StrValue("[\"v\"]")
    /\ arg.KERNEL_VOLUMES = ListValue(<<"v">>)
    /\ ret.error = << >>
    /\ ret.env.KERNEL_VOLUME_MOUNTS = ListValue(<<"v">>)
    /\ ret.env.KERNEL_VOLUMES = ListValue(<<"v">>)

(***************************************************************************)
(* C26: deserializing to a primitive class never raises: when the          *)
(* construction of the primitive fails, the result is the input itself,    *)
(* or its text.  The code catches UnicodeEncodeError and TypeError only:   *)
(* the ValueError of int("abc"), float("abc") or bytes(-1) leaves          *)
(* _deserialize.                                                           *)
(***************************************************************************)
Deserialized == ret # NotYet
PrimitiveCall == Deserialized /\ arg.klass \in PrimitiveTypes

C26_PrimitivesNeverRaise ==
    PrimitiveCall =>
        /\ ret.shape # "error"
        /\ Construct(arg.klass, arg.data).raises # "none" =>
              ret \in {arg.data, PyStr(TextOf(arg.data))}

(***************************************************************************)
(* C27: deserializing a payload to a model class never raises, and a       *)
(* field whose wire key the payload lacks is None.  As the code has it:    *)
(* a field is set exactly when the payload holds its wire key with a       *)
(* value, every other field is None, and the call raises ValueError when   *)
(* a field that the class requires (V1KernelSpec.template) is left None,   *)
(* or when a nested model raises.                                          *)
(***************************************************************************)
ModelCall == Deserialized /\ arg.x = PyNone /\ arg.klass \notin PrimitiveTypes

\* the payload holds the field's wire key with a value
OnWire(data, field) ==
    HasKey(data, field.wire) /\ Lookup(data, field.wire) # PyNone

C27_AbsentKeysNeverRaise ==
    ModelCall =>
        /\ ret.shape = "model"
        /\ \A i \in 1..Len(Fields(arg.klass)) :
              ~HasKey(arg.data, Fields(arg.klass)[i].wire) =>
                  ret.items[i][2] = PyNone

C27_AbsentKeysLeaveDefaults ==
    ModelCall =>
        LET fields == Fields(arg.klass)
            missing == \E i \in 1..Len(fields) :
                          fields[i].required /\ ~OnWire(arg.data, fields[i])
            nested == \E i \in 1..Len(fields) :
                         /\ OnWire(arg.data, fields[i])
                         /\ Deserialize(Lookup(arg.data, fields[i].wire),
                                        fields[i].type).shape = "error"
        IN  /\ ret.shape \in {"model", "error"}
            /\ ret.shape = "error" <=> (missing \/ nested)
            /\ ret.shape = "error" => ret.text = "ValueError"
            /\ ret.shape = "model" =>
                  \A i \in 1..Len(fields) :
                      /\ ret.items[i][1] = fields[i].attr
                      /\ ret.items[i][2] # PyNone <=> OnWire(arg.data, fields[i])

\* a kernel payload with a spec and without status gave a V1Kernel whose
\* status is None
C27_Witness ==
    /\ ModelCall
    /\ arg.klass = "V1Kernel"
    /\ HasKey(arg.data, "spec")
    /\ ~HasKey(arg.data, "status")
    /\ ret.shape = "model"
    /\ Lookup(ret, "status") = PyNone
    /\ Lookup(ret, "spec") # PyNone

(***************************************************************************)
(* C28: a model object that is turned into a dict by to_dict and then      *)
(* deserialized to its class is the object again.  to_dict writes every    *)
(* field under its attribute name and _deserialize looks for the wire      *)
(* key: the round trip holds for the objects whose set fields, at every    *)
(* level, have a wire key that is the attribute's name, lists and          *)
(* mappings included; a field such as V1PodSpec.restart_policy comes back  *)
(* None.                                                                   *)
(***************************************************************************)
RoundTripped == Deserialized /\ arg.x # PyNone

RECURSIVE FullySet(_)
\* every field of the object, at every level, has a value
FullySet(v) ==
    /\ v # PyNone
    /\ \A i \in 1..Len(v.items) : FullySet(v.items[i][2])

RECURSIVE WireNamed(_)
\* every field of the object that has a value, at every level, has a wire
\* key equal to its attribute's name
WireNamed(v) ==
    /\ v.shape = "model" =>
          \A i \in 1..Len(v.items) :
              v.items[i][2] # PyNone =>
                  Fields(v.text)[i].wire = Fields(v.text)[i].attr
    /\ \A i \in 1..Len(v.items) : WireNamed(v.items[i][2])

C29_CleanupSparesOlderResources ==
    \A c \in Calls : OnOlderResource(c) => ~HasDeleted(c)

(***************************************************************************)
(* C23: for every ready object, whatever annotations and labels its        *)
(* metadata has, the reading ends with a Kernel, whose conn_info is the    *)
(* decoded payload or the empty mapping when there is none, or with the    *)
(* JSON decoder's error, and the client has issued no gateway call.  The   *)
(* code subscripts metadata["annotations"], which raises KeyError for an   *)
(* object without annotations.                                             *)
(***************************************************************************)
Extracted == ret # NotExtracted

(***************************************************************************)
(* C22: the create calls that are given one request object submit equal    *)
(* bodies.  In the code the first call takes KERNEL_VOLUMES and            *)
(* KERNEL_VOLUME_MOUNTS out of the request's env, and the body of the      *)
(* next call has no volumes and no volume mounts.                          *)
(***************************************************************************)
C22_SameRequestSameBody ==
    \A i, j \in 1..Len(ret) : ret[i] = ret[j]

C23_ExtractFailsOnlyOnBadJson ==
    Extracted =>
        /\ ret.outcome \in {"Kernel", "JSONDecodeError"}
        /\ ret.outcome = "Kernel" =>
              ret.result.conn_info =
                  IF Falsy(arg.metadata.annotations.conn)
                  THEN "{}" ELSE arg.metadata.annotations.conn
        /\ \A c \in Calls : log[c] = << >>

(***************************************************************************)
(* C24: for a ready object that has the kernel id only in its labels, the  *)
(* Kernel that is returned has that id as kernel_id.  The code reads the   *)
(* annotations alone: with annotations that lack the id, the kernel_id is  *)
(* "".                                                                     *)
(***************************************************************************)
IdOnlyInLabels ==
    /\ arg.metadata.annotations.present
    /\ arg.metadata.annotations.kid = NoVal
    /\ arg.metadata.labels.kid # NoVal

C24_KernelIdFallsBackToLabels ==
    (Extracted /\ IdOnlyInLabels) =>
        /\ ret.outcome = "Kernel"
        /\ ret.result.kernel_id = arg.metadata.labels.kid

(***************************************************************************)
(* C21: the body that create submits is named request.name when that is    *)
(* set and else "{KERNEL_USERNAME}-{KERNEL_ID}" with the user "jovyan" by  *)
(* default, is in the namespace KERNEL_NAMESPACE or "default", carries     *)
(* KERNEL_ID as its kernel-id label and KERNEL_IMAGE as its container's    *)
(* image, and has the restart policy "Never"; every later getResource and  *)
(* deleteResource of the call names that resource, and its watch is on     *)
(* that namespace.                                                         *)
(***************************************************************************)
SubmittedBody(c) == log[c][1].body

C21_BodyNamesTheTarget ==
    \A c \in Calls :
        (IsCreate(c) /\ Issued(c, "createResource") > 0) =>
            LET b == SubmittedBody(c)
                user == IF req[c].KERNEL_USERNAME = NoVal
                        THEN "jovyan" ELSE req[c].KERNEL_USERNAME
            IN  /\ b.name = IF req[c].name # NoName THEN req[c].name
                            ELSE <<user, req[c].KERNEL_ID>>
                /\ b.namespace = IF req[c].KERNEL_NAMESPACE = NoVal
                                 THEN "default" ELSE req[c].KERNEL_NAMESPACE
                /\ b.labels = req[c].KERNEL_ID
                /\ b.image = req[c].KERNEL_IMAGE
                /\ b.restartPolicy = "Never"
                /\ log[c][1].name = b.name
                /\ log[c][1].ns = b.namespace
                /\ \A i \in 2..Len(log[c]) :
                      /\ log[c][i].ns = b.namespace
                      /\ log[c][i].call \in {"getResource", "deleteResource"} =>
                            log[c][i].name = b.name

\* a create named by its request, timed out, has got, watched and deleted
\* its target
C21_Witness ==
    \E c \in Calls :
        /\ IsCreate(c)
        /\ req[c].name = <<"foo">>
        /\ req[c].KERNEL_NAMESPACE = "ns1"
        /\ Issued(c, "createResource") = 1
        /\ Issued(c, "getResource") = 1
        /\ Issued(c, "watchResources") = 1
        /\ Issued(c, "deleteResource") = 1
        /\ SubmittedBody(c).name = <<"foo">>
        /\ log[c][4].name = <<"foo">>
        /\ log[c][4].ns = "ns1"

(***************************************************************************)
(* C30: when the target has Ready=True at the moment the call opens its    *)
(* watch, and does not change afterwards, the target's event is on the     *)
(* stream, the call never gets to the timeout's cleanup, and it ends with  *)
(* the Kernel of the target, having deleted nothing.                       *)
(***************************************************************************)
ReadyAtOpen(c) == Watched(c) /\ <<tns[c], tname[c]>> \in ready

C30_ReadyBeforeWatchIsFound ==
    \A c \in Calls :
        ReadyAtOpen(c) =>
            /\ pc[c] \in {"watching", "done"}
            /\ pc[c] = "watching" =>
                  \E i \in 1..Len(queue[c]) :
                      /\ queue[c][i].name = tname[c]
                      /\ queue[c][i].status = ReadyTrue
            /\ pc[c] = "done" =>
                  /\ outcome[c] = "Kernel"
                  /\ result[c].name = tname[c]
                  /\ ~HasDeleted(c)

\* a create whose resource was ready before its watch opened, in a
\* namespace that holds another resource, has returned it
C30_Witness ==
    \E c \in Calls :
        /\ IsCreate(c)
        /\ CreateAnswer(c) = 201
        /\ ReadyAtOpen(c)
        /\ pc[c] = "done"
        /\ outcome[c] = "Kernel"
        /\ Len(queue[c]) = 0
        /\ Cardinality({k \in cluster : k[1] = tns[c]}) = 2


(***************************************************************************)
(* C31: of two lifecycle calls on the same name whose watches run to       *)
(* different deadlines, the timeout cleanup of one never removes the       *)
(* resource while the other has returned its Kernel or is still waiting    *)
(* for it within its own budget.  The cleanup of the code deletes the      *)
(* target by name without regard to any other call, so the call whose      *)
(* watch was opened first removes the resource the later one waits for.    *)
(***************************************************************************)
\* the two calls are lifecycle calls on the same resource
SameTarget(c, d) ==
    /\ c # d
    /\ (IsCreate(c) \/ IsGet(c))
    /\ (IsCreate(d) \/ IsGet(d))
    /\ tns[c] = tns[d]
    /\ tname[c] = tname[d]

\* the call has returned the Kernel of its target
ReturnedKernel(d) == pc[d] = "done" /\ outcome[d] = "Kernel"

\* the call waits for its target, and neither the time its watch runs with
\* nor its own timeout is used up
WaitingInBudget(d) ==
    /\ pc[d] = "watching"
    /\ elapsed[d] < wtmo[d]
    /\ elapsed[d] < gtmo[d]

\* the step is the timeout cleanup of the call and removes its target
CleanupRemoves(c) ==
    /\ pc[c] = "cleanup"
    /\ pc'[c] = "done"
    /\ <<tns[c], tname[c]>> \in cluster
    /\ <<tns[c], tname[c]>> \notin cluster'

C31_CleanupSparesOtherCalls ==
    [][\A c, d \in Calls :
          (SameTarget(c, d) /\ CleanupRemoves(c)) =>
              /\ ~ReturnedKernel(d)
              /\ ~WaitingInBudget(d)]_vars


(***************************************************************************)
(* C32: every create, acreate, get and aget that has started ends: it      *)
(* returns or raises, whatever events the stream delivers, given that the  *)
(* gateway calls return and the stream ends after its timeout_seconds.     *)
(***************************************************************************)
\* a lifecycle call that has started and not ended
Running(c) ==
    /\ IsCreate(c) \/ IsGet(c)
    /\ pc[c] \notin {"idle", "done"}

C32_LifecycleCallsTerminate ==
    \A c \in SeqCalls : Running(c) ~> (pc[c] = "done")

\* a create has ended on the end of the stream, after events that were
\* not of a ready target and without any cleanup
C32_Witness ==
    \E c \in SeqCalls :
        /\ IsCreate(c)
        /\ pc[c] = "done"
        /\ outcome[c] = "RuntimeError:timeout"
        /\ sawNoStatus[c]
        /\ Issued(c, "watchResources") = 1
        /\ Issued(c, "deleteResource") = 0


(***************************************************************************)
(* C33: the gateway calls of one create are, in this order, one            *)
(* createResource, one getResource, one watchResources and at most one     *)
(* deleteResource.  The getResource follows a createResource answered with *)
(* success or conflict, the watch follows a getResource that succeeded,    *)
(* and the deleteResource follows the opening of the watch and is issued   *)
(* only when the deadline of the watch has passed: the call is in its      *)
(* cleanup only past the deadline, and after a delete it ends with an      *)
(* exception.                                                              *)
(***************************************************************************)
\* the gateway calls of a create that runs into its timeout, in their order
CreateOrder ==
    <<"createResource", "getResource", "watchResources", "deleteResource">>

C33_CreateCallsInOrder ==
    \A c \in SeqCalls :
        IsCreate(c) =>
            /\ Len(log[c]) <= Len(CreateOrder)
            /\ \A i \in 1..Len(log[c]) : log[c][i].call = CreateOrder[i]
            /\ Len(log[c]) >= 2 => log[c][1].status \in {201, CONFLICT}
            /\ Len(log[c]) >= 3 => log[c][2].status = 200
            /\ pc[c] = "cleanup" =>
                  /\ Len(log[c]) = 3
                  /\ DeadlinePassed(elapsed[c], wtmo[c])
            /\ Len(log[c]) = 4 =>
                  /\ pc[c] = "done"
                  /\ outcome[c] \in {"RuntimeError:timeout", "RuntimeError:delete"}

\* a create whose createResource met a conflict has gone through all four
\* gateway calls
C33_Witness ==
    \E c \in SeqCalls :
        /\ op[c] = "create"
        /\ Len(log[c]) = 4
        /\ log[c][1].status = CONFLICT
        /\ log[c][4].call = "deleteResource"
        /\ log[c][4].status = 200


(***************************************************************************)
(* C34: one run of the watch-for-ready loop ends ready or timed out, never *)
(* both.  A call whose run returned the ready object has issued no         *)
(* deleteResource; a call that has issued the timeout's deleteResource has *)
(* ended with an exception and without a result; and the turn of the loop  *)
(* that reads a ready event of the target ends the run with that object,   *)
(* also past the deadline, with no further gateway call and the resource   *)
(* left as it is.                                                          *)
(***************************************************************************)
\* the run returned the ready object, of which get made a Kernel or met the
\* exception of reading its annotations
ReturnedSnapshot(c) ==
    /\ IsCreate(c) \/ IsGet(c)
    /\ pc[c] = "done"
    /\ outcome[c] \in {"Kernel", "KeyError", "JSONDecodeError"}

\* the call has issued the deleteResource of the timeout's cleanup
IssuedCleanup(c) ==
    /\ IsCreate(c) \/ IsGet(c)
    /\ Issued(c, "deleteResource") > 0

ReadyExcludesTimedOut ==
    \A c \in SeqCalls :
        /\ ReturnedSnapshot(c) => ~IssuedCleanup(c)
        /\ IssuedCleanup(c) =>
              /\ pc[c] = "done"
              /\ outcome[c] \in {"RuntimeError:timeout", "RuntimeError:delete"}
              /\ result[c] = NoResult

C34_ReadyExcludesTimedOut ==
    [][/\ ReadyExcludesTimedOut'
       /\ \A c \in SeqCalls :
             (/\ pc[c] = "watching"
              /\ \E ev \in Events :
                    EventReady(ev, tname[c]) /\ WatchEvent(c, ev)) =>
                 /\ ReturnedSnapshot(c)'
                 /\ log'[c] = log[c]
                 /\ cluster' = cluster]_vars

\* a get has returned the Kernel of an object that it read ready after an
\* event without a status block, with no deleteResource
C34_Witness ==
    \E c \in SeqCalls :
        /\ op[c] = "get"
        /\ ReturnedSnapshot(c)
        /\ outcome[c] = "Kernel"
        /\ sawNoStatus[c]
        /\ ~IssuedCleanup(c)


(***************************************************************************)
(* C35: the run of the watch-for-ready loop ends ready only on an ADDED or *)
(* MODIFIED event of the target's own name.  No turn that reads a DELETED  *)
(* or ERROR event, or an event of another name, ends the call with the     *)
(* object, also when that event shows Ready=True; and every turn that does *)
(* end the call so has read an ADDED or MODIFIED event of the target, and  *)
(* the Kernel returned is made of the target's name and of that event's    *)
(* annotations.                                                            *)
(***************************************************************************)
\* the event is an ADDED or MODIFIED event of the object of that name
OfTarget(ev, name) == ev.type \in {"ADDED", "MODIFIED"} /\ ev.name = name

C35_OnlyTargetEventsMakeReady ==
    [][\A c \in SeqCalls :
          (pc[c] = "watching" /\ ReturnedSnapshot(c)') =>
              /\ ~\E ev \in Events :
                      ~OfTarget(ev, tname[c]) /\ WatchEvent(c, ev)
              /\ \E ev \in Events :
                    /\ OfTarget(ev, tname[c])
                    /\ WatchEvent(c, ev)
                    /\ result'[c] = Extract(ev.annotations, tname[c]).result
              /\ outcome'[c] = "Kernel" => result'[c].name = tname[c]]_vars

\* an acreate has returned the Kernel of its target, without connection
\* information in the annotations
C35_Witness ==
    \E c \in SeqCalls :
        /\ op[c] = "acreate"
        /\ ReturnedSnapshot(c)
        /\ outcome[c] = "Kernel"
        /\ result[c].name = tname[c]
        /\ result[c].conn_info = "{}"


(***************************************************************************)
(* C36: a create, get or delete (and their coroutines) works on one        *)
(* resource only.  Its target is the name and namespace it was called      *)
(* with, for a create those of its request, and stays so until the call    *)
(* has ended; every getResource and deleteResource it issues names exactly *)
(* that namespace and name; and a step in which it issues a gateway call   *)
(* leaves every other resource of the cluster as it is, whatever events of *)
(* other resources its stream delivers.                                    *)
(***************************************************************************)
\* the call is a create, a get or a delete by name
Targeted(c) ==
    op[c] \in {"create", "acreate", "get", "aget", "delete", "adelete"}

\* the getResource and deleteResource calls of the call name its target
NamesOnlyTarget(c) ==
    \A i \in 1..Len(log[c]) :
        log[c][i].call \in {"getResource", "deleteResource"} =>
            /\ log[c][i].ns = tns[c]
            /\ log[c][i].name = tname[c]

C36_OnlyTheTargetIsTouched ==
    [][\A c \in SeqCalls :
          /\ (Targeted(c) /\ pc[c] # "idle" /\ pc'[c] # "idle") =>
                /\ tname'[c] = tname[c]
                /\ tns'[c] = tns[c]
          /\ Targeted(c)' =>
                /\ NamesOnlyTarget(c)'
                /\ (IsCreate(c)' /\ Len(log'[c]) > 0) =>
                      /\ tname'[c] = KernelName(req'[c])
                      /\ tns'[c] = KernelNamespace(req'[c])
          /\ (Targeted(c) /\ log'[c] # log[c] /\ pc[c] # "done") =>
                cluster' \ {<<tns[c], tname[c]>>} =
                   cluster \ {<<tns[c], tname[c]>>}]_vars

\* a get of ns1/foo has removed it in its cleanup while the cluster holds a
\* resource of another name in another namespace
C36_Witness ==
    \E c \in SeqCalls :
        /\ op[c] = "get"
        /\ tns[c] = "ns1"
        /\ Issued(c, "getResource") = 1
        /\ Issued(c, "deleteResource") = 1
        /\ HasDeleted(c)
        /\ cluster = {<<"default", <<"dev", "k1">>>>}


(***************************************************************************)
(* C37: what the constructor has set is never written again.  No step of   *)
(* any lifecycle operation changes the group, version, kind, plural or     *)
(* gateway handle of the client or its default timeout; every gateway call *)
(* is addressed with the client's group, version and plural; a call that   *)
(* starts runs with the timeout it was given or, given none, with the      *)
(* client's default; and the timeout given to a create is used for its     *)
(* createResource alone, the getResource that follows falling back to the  *)
(* default.                                                                *)
(***************************************************************************)
\* the timeouts a caller can give
Overrides == CallTimeouts \ {0}

\* the timeout the method that was called runs with
OwnTimeout(c) == IF IsGet(c) THEN gtmo[c] ELSE tmo[c]

\* the gateway calls of the call carry the client's group, version, plural
AddressedByConfig(c) ==
    \A i \in 1..Len(log[c]) :
        /\ log[c][i].group = selfApi.group
        /\ log[c][i].version = selfApi.version
        /\ log[c][i].plural = selfApi.plural

C37_ConfigurationIsReadOnly ==
    [][/\ selfApi' = selfApi
       /\ selfTimeout' = selfTimeout
       /\ selfTimeout' \in ClientTimeouts
       /\ \A c \in Calls :
             /\ AddressedByConfig(c)'
             /\ (pc[c] = "idle" /\ pc'[c] # "idle") =>
                   OwnTimeout(c)' \in Overrides \cup {selfTimeout}
             /\ IsCreate(c)' =>
                   \A i \in CallsOf(log'[c], "getResource") :
                       log'[c][i].timeout = selfTimeout]_vars

\* a create that was given its own timeout has sent its createResource
\* with it and its getResource with the client's default
C37_Witness ==
    \E c \in SeqCalls :
        /\ op[c] = "create"
        /\ tmo[c] \in Overrides
        /\ tmo[c] # selfTimeout
        /\ Len(log[c]) >= 2
        /\ log[c][1].timeout = tmo[c]
        /\ log[c][2].call = "getResource"
        /\ log[c][2].timeout = selfTimeout
        /\ selfApi = DefaultApi

=============================================================================
